---- MODULE Spec2Model ----
(***************************************************************************)
(* Execution & risk-control core of the trading bot: the stream client     *)
(* (bot/ws_manager.py), the candle buffer cache (bot/market_data.py), the  *)
(* execution engine (bot/execution.py), the risk governor (bot/risk.py),   *)
(* the exchange conformance helper (bot/binance_client.py, bot/utils.py)   *)
(* and the persisted state ledger (bot/state.py).                          *)
(*                                                                         *)
(* Units.  Quantities are integers in lots of the base asset, prices and   *)
(* quote amounts are integers in quote units, wall-clock time is in whole  *)
(* seconds (state.py truncates time.time() with int()).  None, a missing   *)
(* dict key and 0.0 are all written 0 for stop_price / take_price /        *)
(* last_buy_qty: the code reads them only through truthiness tests and     *)
(* .get(symbol, 0.0).                                                      *)
(***************************************************************************)
EXTENDS Integers, Sequences, FiniteSets, TLC

(***************************************************************************)
(* Bounds of the model and constants of the program                        *)
(***************************************************************************)
\* index of the last candle the stream delivers
MaxCandle == 3
\* steps of the clock the model explores
MaxTicks == 12
\* external changes of a wallet the model explores
MaxDrift == 1
\* klines the stream repeats
MaxDup == 1
\* failures of the subscription
MaxFails == 2
\* writes of timeframe.flag the model explores
MaxFlagWrites == 1
MaxRestarts == 1      \* restarts of the process
NumThreads == 2       \* threads of the process that call bot/state.py
MaxClock == 2         \* seconds that pass while they do
MaxCalls == 4         \* register_trade calls of the risk governor harness
MaxCap == 3           \* largest buffer capacity of the buffer harness
MaxAppends == 5       \* on_kline_closed calls of the buffer harness
MantBits == 5         \* significant bits of a float (53 in the program)
FracBits == 5         \* a float is a multiple of 2^-FracBits
\* ttl_sec passed by handle_candles to is_recent_signal / add_recent_signal
TtlSec == 30
\* state.py keeps the last 500 recent-signal records
Retries == 5
RecentCap == 500
\* state.py keeps the last 200 trades
LedgerCap == 200
\* WebSocketBot._heartbeat_timeout
HeartbeatTimeout == 15
\* start(): backoff = min(backoff * 2, 60)
BackoffCap == 60
\* MarketDataService(maxlen=2000)
BufMaxLen == 2000
\* bootstrap_from_rest(..., limit=200)
BootstrapLimit == 200

\* the clock advances by one heartbeat period per step
TickSecs == HeartbeatTimeout
MaxTime == MaxTicks * TickSecs

Symbols == {"BTCUSDT"}
Sides == {"buy", "sell"}
Signals == {"buy", "sell", "hold"}
\* prices seen on the ticker and as candle closes
Prices == {50, 100}
\* free USDT balances read before place_signal
UsdtChoices == {0, 100, 400}

Min(a, b) == IF a <= b THEN a ELSE b
Max(a, b) == IF a >= b THEN a ELSE b
Abs(a) == IF a < 0 THEN -a ELSE a

\* seq[-n:]
LastN(seq, n) == IF Len(seq) <= n THEN seq ELSE SubSeq(seq, Len(seq) - n + 1, Len(seq))

(***************************************************************************)
(* bot/utils.py, bot/binance_client.py : conformance helper                *)
(***************************************************************************)
\* math.floor(value / step) * step, for a value given as the ratio num / den
round_step_ratio(num, den, step) ==
    IF step <= 0 THEN num \div den ELSE (num \div (den * step)) * step

round_step(value, step) == round_step_ratio(value, 1, step)

round_tick(price, tick) == IF tick <= 0 THEN price ELSE (price \div tick) * tick

\* conform_qty_price for a quantity num / den: floor to the step, then raise to minQty
conform_qty_ratio(flt, num, den) == Max(round_step_ratio(num, den, flt.stepSize), flt.minQty)

conform_qty_price(flt, qty, price) ==
    <<Max(round_step(qty, flt.stepSize), flt.minQty), round_tick(price, flt.tickSize)>>

(***************************************************************************)
(* State                                                                   *)
(***************************************************************************)
VARIABLES
    cfg,               \* config['risk'] and config['mode'], fixed at construction
    filters,           \* the exchange's LOT_SIZE / PRICE_FILTER / MIN_NOTIONAL per symbol
    now,               \* wall clock, seconds
    pause_flag,        \* os.path.exists(PAUSE_FLAG)
    \* ExecutionService
    last_buy_qty, last_buy_price, stop_price, take_price,
    filters_cache,     \* BinanceClient._filters_cache: symbols whose filters are cached
    \* RiskState
    trades_today, realized_pnl_usdt,
    \* state.json
    pnl_daily, trades, recent_signals, last_tick_ts,
    \* the exchange account
    wallet,            \* free balance of each symbol's base asset
    locked,            \* base asset locked in a resting OCO sell
    last_price,        \* the ticker's lastPrice
    \* observation of the engine's traffic with the exchange
    orders_filled,     \* market orders the exchange accepted
    last_order,        \* the market order request of the latest engine operation
    calls,             \* exchange endpoints called by the latest engine operation
    result,            \* how the latest engine operation ended
    sig_window,        \* per signal key: its current ttl window of observations
    prot_run,          \* per symbol: the current run of closes at or below a stop
    \* MarketDataService
    buffers,           \* buffers[symbol][tf]: [present, candles]
    \* WebSocketBot
    timeframe,         \* self.timeframe
    tf_last_mtime,     \* self._tf_last_mtime
    last_msg_ts,       \* self._last_msg_ts
    backoff,           \* start()'s backoff
    start_pc,          \* where start() is: connecting, streaming, backoff
    sleep_until,       \* when start()'s asyncio.sleep(backoff) ends
    hpc,               \* where handle_candles is: idle, or in its strategies loop
    hidx,              \* index of the strategy handle_candles evaluates next
    cur,               \* the closed kline handle_candles is working on
    watchdog,          \* the watchdog task: none, running, raised, cancelled
    wd_wake,           \* when the watchdog's asyncio.sleep ends
    \* the stream and the flag file
    sub_tf,            \* timeframe of the open subscription
    sub_since,         \* when it was opened
    delivered,         \* index of the last closed candle it delivered
    tf_flag,           \* content of timeframe.flag, "none" when the file is missing
    tf_flag_mtime,     \* its mtime, 0 when the file is missing
    drifts,            \* external changes of the wallets so far
    dups,              \* klines the stream has repeated so far
    fails,             \* failures of the subscription so far
    restarts,          \* times the process was started again
    \* ghost state of the component harnesses
    reg_log,           \* the pnl of every register_trade call so far, in call order
    maxlen,            \* MarketDataService.maxlen, the capacity of every buffer
    appended,          \* the rows given to on_kline_closed for the 3m key, in call order
    conform_seq,       \* <<qty, price>> given to conform_qty_price, then each result fed back
    \* bot/state.py below the snapshot: the lock, the threads in it, the files
    lock,              \* _lock: 0 when free, else the thread that holds it
    th,                \* per thread: the call it makes and how far it is
    tmp_file,          \* the file at STATE_PATH + ".tmp"
    torn,              \* the file at STATE_PATH holds a partly written document
    seen,              \* what the dashboard's last read of STATE_PATH met
    retry              \* one _with_retries call: its attempt counter, what fn did, how it ended

\* state that only the component harnesses touch
ledgerVars == <<lock, th, tmp_file, torn, seen>>
sideVars == <<reg_log, maxlen, appended, conform_seq, ledgerVars, retry>>

engineVars == <<last_buy_qty, last_buy_price, stop_price, take_price, filters_cache,
                trades_today, realized_pnl_usdt, pnl_daily, trades,
                wallet, locked, orders_filled, last_order, calls, result>>

NoOrder == [symbol |-> "", side |-> "", qty |-> 0, wallet_read |-> 0, held |-> 0,
            accepted |-> FALSE]

\* the engine, its risk state, its ledger and the account, as one value that the
\* operators below thread through a call, the way the calls run one after another
Engine ==
    [qty |-> last_buy_qty, price |-> last_buy_price, stop |-> stop_price,
     take |-> take_price, cache |-> filters_cache,
     trades_today |-> trades_today, realized |-> realized_pnl_usdt,
     pnl_daily |-> pnl_daily, trades |-> trades,
     wallet |-> wallet, locked |-> locked,
     filled |-> orders_filled, last_order |-> NoOrder,
     calls |-> {}, result |-> "none"]

SetEngine(e) ==
    /\ last_buy_qty' = e.qty
    /\ last_buy_price' = e.price
    /\ stop_price' = e.stop
    /\ take_price' = e.take
    /\ filters_cache' = e.cache
    /\ trades_today' = e.trades_today
    /\ realized_pnl_usdt' = e.realized
    /\ pnl_daily' = e.pnl_daily
    /\ trades' = e.trades
    /\ wallet' = e.wallet
    /\ locked' = e.locked
    /\ orders_filled' = e.filled
    /\ last_order' = e.last_order
    /\ calls' = e.calls
    /\ result' = e.result

(***************************************************************************)
(* The exchange, as the engine sees it.  An outcome x says which calls of  *)
(* one engine operation fail after their retries and what fill breakdown   *)
(* an accepted order reports.                                              *)
(***************************************************************************)
Outcomes ==
    { [reads |-> TRUE,  quote |-> TRUE,  qty |-> TRUE,  oco |-> TRUE,  fills |-> "one"],
      [reads |-> TRUE,  quote |-> TRUE,  qty |-> TRUE,  oco |-> FALSE, fills |-> "two"],
      [reads |-> TRUE,  quote |-> TRUE,  qty |-> TRUE,  oco |-> FALSE, fills |-> "none"],
      [reads |-> TRUE,  quote |-> FALSE, qty |-> TRUE,  oco |-> FALSE, fills |-> "one"],
      [reads |-> TRUE,  quote |-> FALSE, qty |-> FALSE, oco |-> FALSE, fills |-> "one"],
      [reads |-> FALSE, quote |-> TRUE,  qty |-> TRUE,  oco |-> TRUE,  fills |-> "one"] }

\* the fills array of an order response for q lots at price p
FillsOf(kind, p, q) ==
    CASE kind = "none" -> << >>
      [] kind = "one"  -> << [price |-> p, qty |-> q] >>
      [] OTHER         -> << [price |-> p, qty |-> q - (q \div 2)], [price |-> p, qty |-> q \div 2] >>

RECURSIVE SumQty(_)
SumQty(fills) == IF fills = << >> THEN 0 ELSE Head(fills).qty + SumQty(Tail(fills))

RECURSIVE SumCost(_)
SumCost(fills) ==
    IF fills = << >> THEN 0 ELSE Head(fills).price * Head(fills).qty + SumCost(Tail(fills))

Called(e, eps) == [e EXCEPT !.calls = @ \cup eps]
\* a return that forgets the position on its way out
Ended_flat(e, how) == [e EXCEPT !.result = how, !.qty = [sym \in Symbols |-> 0]]

Ended(e, how) == [e EXCEPT !.result = how]

\* BinanceClient.get_symbol_filters: fetch once, then serve from the cache
get_symbol_filters(e, sym) ==
    IF e.cache[sym] THEN e
    ELSE [Called(e, {"symbol_info"}) EXCEPT !.cache[sym] = TRUE]

(***************************************************************************)
(* bot/risk.py                                                             *)
(***************************************************************************)
\* can_trade without the trade cap
can_trade_uncapped(e) ==
    ~ /\ cfg.capital_base_usdt > 0
      /\ cfg.max_daily_loss_pct > 0
      /\ e.pnl_daily * 100 <= -(Abs(cfg.capital_base_usdt) * Abs(cfg.max_daily_loss_pct))

\* can_trade that never refuses
can_trade_always(e) == TRUE

\* RiskManager.can_trade: the trade cap from RiskState, the loss cut from state.json
can_trade(e) ==
    IF e.trades_today >= cfg.max_trades_per_day THEN FALSE
    ELSE IF /\ cfg.capital_base_usdt > 0
            /\ cfg.max_daily_loss_pct > 0
            /\ e.pnl_daily * 100 <= -(Abs(cfg.capital_base_usdt) * Abs(cfg.max_daily_loss_pct))
         THEN FALSE
         ELSE TRUE

\* register_trade that keeps only the latest pnl
register_trade_overwrite(e, pnl) ==
    [e EXCEPT !.trades_today = @ + 1, !.realized = pnl]

\* register_trade without the trade count
register_trade_uncounted(e, pnl) ==
    [e EXCEPT !.realized = @ + pnl]

register_trade(e, pnl) ==
    [e EXCEPT !.trades_today = @ + 1, !.realized = @ + pnl]

position_size_from_balance(usdt) == Max(0, (usdt * cfg.capital_per_trade_pct) \div 100)

is_protective_enabled == cfg.protective_orders_enabled
sl_pct == Max(0, cfg.stop_loss_pct)
tp_pct == Max(0, cfg.take_profit_pct)

(***************************************************************************)
(* bot/state.py : ledger                                                   *)
(***************************************************************************)
\* append_trade that writes the ledger and leaves pnl_daily alone
append_trade_ledger_only(e, sym, side, qty, price, pnl) ==
    [e EXCEPT !.trades = LastN(Append(@, [ts |-> now, symbol |-> sym, side |-> side,
                                          qty |-> qty, price |-> price, pnl |-> pnl]),
                               LedgerCap)]

\* append_trade that recomputes pnl_daily from the entries the ledger still holds
append_trade_ledger_sum(e, sym, side, qty, price, pnl) ==
    LET kept == LastN(Append(e.trades, [ts |-> now, symbol |-> sym, side |-> side,
                                        qty |-> qty, price |-> price, pnl |-> pnl]),
                      LedgerCap)
        RECURSIVE Total(_, _)
        Total(lo, hi) == IF lo > hi THEN 0
                         ELSE IF lo = hi THEN kept[lo].pnl
                         ELSE Total(lo, (lo + hi) \div 2) + Total((lo + hi) \div 2 + 1, hi)
    IN  [e EXCEPT !.trades = kept, !.pnl_daily = Total(1, Len(kept))]

append_trade(e, sym, side, qty, price, pnl) ==
    [e EXCEPT !.trades = LastN(Append(@, [ts |-> now, symbol |-> sym, side |-> side,
                                          qty |-> qty, price |-> price, pnl |-> pnl]),
                               LedgerCap),
              !.pnl_daily = @ + pnl]

(***************************************************************************)
(* bot/binance_client.py : orders.  Each returns the engine after the call *)
(* with ok saying whether the call returned (TRUE) or raised (FALSE).      *)
(***************************************************************************)
\* what the exchange does with a market order for q lots: a sell of more than the
\* free balance is refused, whatever else happens
ExchangeFill(e, sym, side, q, accept) ==
    LET ok == accept /\ q > 0 /\ (side = "sell" => q <= e.wallet[sym])
        req == [symbol |-> sym, side |-> side, qty |-> q,
                wallet_read |-> e.wallet[sym], held |-> e.qty[sym], accepted |-> ok]
    IN  [e |-> [e EXCEPT !.last_order = req,
                         !.filled = IF ok THEN @ + 1 ELSE @,
                         !.wallet[sym] = IF ~ok THEN @
                                         ELSE IF side = "buy" THEN @ + q ELSE @ - q],
         ok |-> ok]

\* create_market_order_qty: ticker, conform again, re-check the notional, create_order
create_market_order_qty(e, sym, side, quantity, last, x) ==
    LET flt == filters[sym]
        e1 == Called(get_symbol_filters(e, sym), {"ticker"})
        qty_adj == conform_qty_price(flt, quantity, last)[1]
    IN  IF qty_adj * last < flt.minNotional
        THEN [e |-> e1, ok |-> FALSE]
        ELSE ExchangeFill(Called(e1, {"order_qty"}), sym, side, qty_adj, x.qty)

\* a quote order that the exchange fills while the call reports a failure
create_market_order_quote_lost(e, sym, side, quote_qty_usdt, last, x) ==
    LET q == round_step_ratio(quote_qty_usdt, last, filters[sym].stepSize)
    IN  [e |-> ExchangeFill(Called(get_symbol_filters(e, sym), {"order_quote"}),
                            sym, side, q, TRUE).e,
         ok |-> FALSE]

\* create_market_order_quote: re-check the notional, create_order with quoteOrderQty;
\* the exchange fills whole lots worth at most the quote amount
create_market_order_quote(e, sym, side, quote_qty_usdt, last, x) ==
    LET flt == filters[sym]
        e1 == get_symbol_filters(e, sym)
        q == round_step_ratio(quote_qty_usdt, last, flt.stepSize)
    IN  IF quote_qty_usdt < flt.minNotional
        THEN [e |-> e1, ok |-> FALSE]
        ELSE ExchangeFill(Called(e1, {"order_quote"}), sym, side, q, x.quote /\ q >= flt.minQty)

\* create_oco_sell: conform quantity and prices, create_oco_order; a resting OCO
\* locks the base asset it will sell
create_oco_sell(e, sym, quantity, stop, limit, x) ==
    LET flt == filters[sym]
        qty_adj == conform_qty_price(flt, quantity, stop)[1]
        e1 == Called(get_symbol_filters(e, sym), {"oco"})
        ok == x.oco /\ qty_adj <= e1.wallet[sym]
    IN  IF ok THEN [e1 EXCEPT !.wallet[sym] = @ - qty_adj, !.locked[sym] = @ + qty_adj]
        ELSE e1

(***************************************************************************)
(* bot/execution.py                                                        *)
(***************************************************************************)
\* _apply_protective_levels: derive stop / take from the average price, try an OCO
apply_protective_levels(e, sym, avg_price, x) ==
    IF ~is_protective_enabled
    THEN [e EXCEPT !.stop[sym] = 0, !.take[sym] = 0]
    ELSE LET stop == IF sl_pct > 0 THEN (avg_price * (100 - sl_pct)) \div 100 ELSE 0
             take == IF tp_pct > 0 THEN (avg_price * (100 + tp_pct)) \div 100 ELSE 0
             e1 == [e EXCEPT !.stop[sym] = stop, !.take[sym] = take]
         IN  IF stop # 0 /\ take # 0 /\ e1.qty[sym] > 0
             THEN create_oco_sell(e1, sym, e1.qty[sym], stop, take, x)
             ELSE e1

\* _execute_buy
execute_buy(e, sym, desired_quote_usdt, last, x) ==
    LET flt == filters[sym]
        e1 == Called(get_symbol_filters(e, sym), {"ticker"})
    IN
    IF ~x.reads THEN Ended(e1, "raised")
    ELSE IF desired_quote_usdt < flt.minNotional THEN Ended(e1, "buy_below_min_notional")
    ELSE
      LET q1 == create_market_order_quote(e1, sym, "buy", desired_quote_usdt, last, x)
          qty_adj == conform_qty_ratio(flt, desired_quote_usdt, last)
          fallback_small == ~q1.ok /\ qty_adj * last < flt.minNotional
          q2 == IF q1.ok \/ fallback_small THEN q1
                ELSE create_market_order_qty(q1.e, sym, "buy", qty_adj, last, x)
      IN
      IF fallback_small THEN Ended(q1.e, "buy_fallback_below_min_notional")
      ELSE IF ~q2.ok THEN Ended(q2.e, "raised")
      ELSE
        LET fills == FillsOf(x.fills, last, q2.e.last_order.qty)
            total_qty == SumQty(fills)
            avg_price == IF fills # << >> /\ total_qty > 0
                         THEN SumCost(fills) \div total_qty ELSE last
            e3 == [q2.e EXCEPT !.price[sym] = avg_price, !.qty[sym] = total_qty]
            e4 == append_trade(register_trade(e3, 0), sym, "buy", total_qty, avg_price, 0)
        IN  Ended(apply_protective_levels(e4, sym, avg_price, x), "executed")

\* _execute_sell
execute_sell(e, sym, last, x) ==
    LET flt == filters[sym]
        e1 == Called(get_symbol_filters(e, sym), {"ticker", "symbol_info", "balance"})
        target_qty == e.qty[sym]
        wallet_qty == e.wallet[sym]
        qty_raw == Min(target_qty, wallet_qty)
        qty_adj == conform_qty_price(flt, qty_raw, last)[1]
        \* min(wallet_qty, minNotional / last_price), conformed
        qty_try == IF wallet_qty * last <= flt.minNotional
                   THEN conform_qty_price(flt, wallet_qty, last)[1]
                   ELSE conform_qty_ratio(flt, flt.minNotional, last)
        low == qty_adj * last < flt.minNotional
        qty_fin == IF low THEN qty_try ELSE qty_adj
    IN
    IF ~x.reads THEN Ended(e1, "raised")
    ELSE IF qty_raw <= 0 THEN Ended(e1, "sell_no_position")
    ELSE IF qty_adj < flt.minQty THEN Ended(e1, "sell_below_min_qty")
    ELSE IF low /\ qty_try * last < flt.minNotional THEN Ended(e1, "sell_below_min_notional")
    ELSE
      LET o == create_market_order_qty(e1, sym, "sell", qty_fin, last, x)
      IN  IF ~o.ok THEN Ended(o.e, "raised")
          ELSE
            LET avg_buy == o.e.price[sym]
                pnl == (last - avg_buy) * qty_fin
                e2 == register_trade(o.e, pnl)
                left == Max(0, e2.qty[sym] - qty_fin)
                e3 == [e2 EXCEPT !.qty[sym] = left,
                                 !.stop[sym] = IF left <= 0 THEN 0 ELSE @,
                                 !.take[sym] = IF left <= 0 THEN 0 ELSE @]
            IN  Ended(append_trade(e3, sym, "sell", qty_fin, last, pnl), "executed")

\* a software exit that watches the stop alone
protective_triggered_stop_only(e, sym, close) ==
    e.qty[sym] > 0 /\ e.stop[sym] # 0 /\ close <= e.stop[sym]

\* check_protective_exit: the software stop / take, on every closed candle
protective_triggered(e, sym, close) ==
    /\ e.qty[sym] > 0
    /\ \/ e.stop[sym] # 0 /\ close <= e.stop[sym]
       \/ e.take[sym] # 0 /\ close >= e.take[sym]

\* a protective exit that asks the risk governor first
check_protective_exit_gated(e, sym, close, last, x) ==
    IF protective_triggered(e, sym, close) /\ can_trade(e)
    THEN execute_sell(e, sym, last, x) ELSE e

check_protective_exit(e, sym, close, last, x) ==
    IF protective_triggered(e, sym, close) THEN execute_sell(e, sym, last, x) ELSE e

\* place_signal
place_signal(e, sym, signal, usdt_balance, last, x) ==
    IF signal \notin {"buy", "sell"} THEN e
    ELSE IF ~can_trade(e) THEN Ended(e, "risk_blocked")
    ELSE IF signal = "buy"
         THEN LET quote_size == position_size_from_balance(usdt_balance)
              IN  IF quote_size <= 0 THEN Ended(e, "buy_no_usdt")
                  ELSE execute_buy(e, sym, quote_size, last, x)
         ELSE execute_sell(e, sym, last, x)

(***************************************************************************)
(* bot/state.py : recent-signal window                                     *)
(***************************************************************************)
RECURSIVE SelectTtl(_, _, _)
\* [x for x in arr if (t - x.ts) <= ttl_sec]
SelectTtl(arr, t, ttl_sec) ==
    IF arr = << >> THEN << >>
    ELSE IF t - Head(arr).ts <= ttl_sec
         THEN <<Head(arr)>> \o SelectTtl(Tail(arr), t, ttl_sec)
         ELSE SelectTtl(Tail(arr), t, ttl_sec)

\* add_recent_signal: append, prune by ttl, keep the last 500
add_recent_signal(arr, sym, side, candle_close, t, ttl_sec) ==
    LastN(SelectTtl(Append(arr, [ts |-> t, symbol |-> sym, side |-> side,
                                 candle_close |-> candle_close]), t, ttl_sec),
          RecentCap)

\* is_recent_signal: the records kept (written back) and whether one of them matches
is_recent_signal_kept(arr, t, ttl_sec) == LastN(SelectTtl(arr, t, ttl_sec), RecentCap)

\* is_recent_signal with a record of exactly ttl_sec seconds already too old
is_recent_signal_strict(arr, sym, side, candle_close, t, ttl_sec) ==
    \E i \in 1..Len(arr) :
        /\ t - arr[i].ts < ttl_sec
        /\ arr[i].symbol = sym
        /\ arr[i].side = side
        /\ arr[i].candle_close = candle_close

is_recent_signal(arr, sym, side, candle_close, t, ttl_sec) ==
    LET kept == SelectTtl(arr, t, ttl_sec)
    IN  \E i \in 1..Len(kept) :
            /\ kept[i].symbol = sym
            /\ kept[i].side = side
            /\ kept[i].candle_close = candle_close

(***************************************************************************)
(* bot/market_data.py : candle buffer cache                                *)
(***************************************************************************)
TFs == {"1m", "3m"}
Secs(tf) == IF tf = "1m" THEN 60 ELSE 180

\* the kline of index n at timeframe tf; final says whether it had closed when it
\* was taken, src which timeframe it is a candle of
Kline(tf, n, final) ==
    [open_time |-> n * Secs(tf), close_time |-> (n + 1) * Secs(tf) - 1,
     closed |-> TRUE, src |-> tf, final |-> final]

\* a deque that refuses a row when full, in place of evicting the oldest
DequeAppend_refuse(buf, c) == IF Len(buf) >= maxlen THEN buf ELSE Append(buf, c)

\* deque(maxlen).append
DequeAppend(buf, c) == LastN(Append(buf, c), maxlen)

RECURSIVE KlinesFrom(_, _, _)
KlinesFrom(tf, lo, hi) ==
    IF lo > hi THEN << >>
    ELSE <<Kline(tf, lo, (lo + 1) * Secs(tf) <= now)>> \o KlinesFrom(tf, lo + 1, hi)

\* client.get_klines(interval, limit): the latest `limit` klines, the one in progress last
get_klines(tf, limit) ==
    LET n == now \div Secs(tf)
    IN  KlinesFrom(tf, Max(0, n - limit + 1), n)

\* a bootstrap that fetches whether or not the key has a buffer
bootstrap_fetches_always(bufs, sym, tf) == TRUE

\* lines 19-22: get_klines is reached only past the early return
bootstrap_fetches(bufs, sym, tf) == ~bufs[sym][tf].present

\* bootstrap_from_rest: a no-op when the key has a buffer; ok = FALSE: get_klines raised
bootstrap_from_rest(bufs, sym, tf, ok) ==
    IF ~bootstrap_fetches(bufs, sym, tf) \/ ~ok THEN bufs
    ELSE [bufs EXCEPT ![sym][tf] =
             [present |-> TRUE, candles |-> LastN(get_klines(tf, BootstrapLimit), maxlen)]]

\* on_kline_closed: create the buffer lazily, append
on_kline_closed(bufs, sym, tf, k) ==
    [bufs EXCEPT ![sym][tf] = [present |-> TRUE, candles |-> DequeAppend(@.candles, k)]]

\* get_df: empty below two candles
get_df(bufs, sym, tf) ==
    IF ~bufs[sym][tf].present \/ Len(bufs[sym][tf].candles) < 2 THEN << >>
    ELSE bufs[sym][tf].candles

(***************************************************************************)
(* Observation of the signal gate and of the protective exit               *)
(***************************************************************************)
\* A signal key's window opens at its first observation and lasts ttl_sec; obs counts
\* the observations in it and placed the place_signal calls they led to (0, 1, or 2
\* for two and more), paused whether
\* the pause flag was seen at one of them, balance_ok whether every balance read made
\* for it succeeded; windows that are over are forgotten
ObserveSignal(w, key, t, ttl_sec, is_placed, is_paused, bal_ok) ==
    LET fresh == key \notin DOMAIN w \/ t - w[key].start > ttl_sec
        old == IF fresh
               THEN [start |-> t, obs |-> 0, placed |-> 0, paused |-> FALSE, balance_ok |-> TRUE]
               ELSE w[key]
        new == [start |-> old.start, obs |-> Min(old.obs + 1, 2),
                placed |-> Min(old.placed + (IF is_placed THEN 1 ELSE 0), 2),
                paused |-> old.paused \/ is_paused,
                balance_ok |-> old.balance_ok /\ bal_ok]
        live == {k \in DOMAIN w : t - w[k].start <= ttl_sec}
    IN  [k \in live \cup {key} |-> IF k = key THEN new ELSE w[k]]

\* the windows still open at time t
LiveWindows(w, t, ttl_sec) ==
    [k \in {k \in DOMAIN w : t - w[k].start <= ttl_sec} |-> w[k]]

NoRun == [stop |-> 0, triggers |-> 0]

\* A run starts when a close at or below the position's stop triggers the exit and
\* lasts while the following closes stay at or below that stop
ObserveClose(run, qty, stop, close) ==
    LET live == run.stop # 0 /\ close <= run.stop
        hit == qty > 0 /\ stop # 0 /\ close <= stop
    IN  IF hit THEN IF live THEN [run EXCEPT !.triggers = @ + 1]
                    ELSE [stop |-> stop, triggers |-> 1]
        ELSE IF live THEN run ELSE NoRun

(***************************************************************************)
(* bot/ws_manager.py : handle_candles                                      *)
(***************************************************************************)
NoMsg == [symbol |-> "", close |-> 0, T |-> 0]

streamVars == <<timeframe, tf_last_mtime, start_pc, sleep_until, watchdog, wd_wake,
                sub_tf, sub_since, tf_flag, tf_flag_mtime>>

\* the strategies loop is over: handle_candles returns and start() resets the backoff
HandlerReturns ==
    /\ hpc' = "idle"
    /\ hidx' = 1
    /\ cur' = NoMsg
    /\ backoff' = 1

\* lines 89-114: a closed kline k of the subscription arrives: heartbeat, buffer append
\* under self.timeframe, software stop / take, then the strategies loop
HandleClosedKline(sym, n, close, x) ==
    LET k == Kline(sub_tf, n, TRUE)
        e == check_protective_exit(Engine, sym, close, close, x)
    IN  /\ last_msg_ts' = now
        /\ last_tick_ts' = now
        /\ buffers' = on_kline_closed(buffers, sym, timeframe, k)
        /\ last_price' = [last_price EXCEPT ![sym] = close]
        /\ prot_run' = [prot_run EXCEPT ![sym] =
                            ObserveClose(@, last_buy_qty[sym], stop_price[sym], close)]
        /\ SetEngine(e)
        /\ cur' = [symbol |-> sym, close |-> close, T |-> k.close_time]
        /\ IF Len(cfg.strategies) = 0
           THEN /\ hpc' = "idle" /\ hidx' = 1 /\ backoff' = 1
           ELSE /\ hpc' = "strategies" /\ hidx' = 1 /\ UNCHANGED backoff

\* StrategyManager hands every strategy the interval of config.yaml
strategy_interval == cfg.timeframe

\* generate_signal: hold below the lookback, else whatever the indicator says
generate_signal(bufs, sym, indicator) ==
    IF get_df(bufs, sym, strategy_interval) = << >> THEN "hold" ELSE indicator

\* a pause check that never finds the flag
is_paused_never == FALSE

\* _is_paused: os.path.exists(PAUSE_FLAG)
is_paused == pause_flag

\* a mode check that lets every configuration trade
trade_mode_always == TRUE

\* line 123: self.mode == "trade"
trade_mode == cfg.mode = "trade"

\* lines 117-139: one turn of the strategies loop
StrategyTurn(indicator, usdt_free, balance_ok, x) ==
    LET sym == cur.symbol
        signal == generate_signal(buffers, sym, indicator)
        key == <<sym, signal, cur.T>>
        gated == trade_mode /\ signal \in {"buy", "sell"}
        hit == is_recent_signal(recent_signals, sym, signal, cur.T, now, TtlSec)
        forward == gated /\ ~hit /\ ~is_paused /\ balance_ok
        e == IF forward
             THEN place_signal(Engine, sym, signal, usdt_free, last_price[sym], x)
             ELSE Engine
    IN  /\ recent_signals' =
              IF ~gated THEN recent_signals
              ELSE IF hit THEN is_recent_signal_kept(recent_signals, now, TtlSec)
              ELSE add_recent_signal(is_recent_signal_kept(recent_signals, now, TtlSec),
                                     sym, signal, cur.T, now, TtlSec)
        /\ sig_window' =
              IF ~gated THEN sig_window
              ELSE ObserveSignal(sig_window, key, now, TtlSec, forward, is_paused,
                                 hit \/ is_paused \/ balance_ok)
        /\ IF forward THEN SetEngine(e) ELSE UNCHANGED engineVars
        /\ prot_run' = IF forward /\ signal = "buy" /\ e.result = "executed"
                       THEN [prot_run EXCEPT ![sym] = NoRun] ELSE prot_run
        /\ IF hidx >= Len(cfg.strategies)
           THEN HandlerReturns
           ELSE /\ hidx' = hidx + 1 /\ UNCHANGED <<hpc, cur, backoff>>

(***************************************************************************)
(* bot/ws_manager.py : start(), watchdog(), and the world around them      *)
(***************************************************************************)
vars == <<cfg, filters, now, pause_flag,
          last_buy_qty, last_buy_price, stop_price, take_price, filters_cache,
          trades_today, realized_pnl_usdt, pnl_daily, trades, recent_signals, last_tick_ts,
          wallet, locked, last_price, orders_filled, last_order, calls, result,
          sig_window, prot_run, buffers,
          timeframe, tf_last_mtime, last_msg_ts, backoff, start_pc, sleep_until,
          hpc, hidx, cur, watchdog, wd_wake,
          sub_tf, sub_since, delivered, tf_flag, tf_flag_mtime, drifts, dups, fails, restarts, sideVars>>

handlerVars == <<hpc, hidx, cur>>
gateVars == <<recent_signals, sig_window, prot_run>>
worldVars == <<cfg, filters, pause_flag, drifts, dups, fails, restarts, sideVars>>
\* what a call made on one component alone leaves as it is, the engine and the buffers apart
botVars == <<cfg, filters, pause_flag, drifts, dups, fails, restarts, now, last_price,
             gateVars, handlerVars, last_msg_ts, last_tick_ts, backoff, streamVars, delivered>>

\* _read_timeframe: the flag when it names a valid timeframe, else config.yaml, else 1m
read_timeframe(flag) ==
    IF flag \in TFs THEN flag
    ELSE IF cfg.timeframe \in TFs THEN cfg.timeframe ELSE "1m"

\* the next closed candle the open subscription has to deliver for sym
NextCandle(sym) == Max(delivered[sym] + 1, sub_since \div Secs(sub_tf))

\* the stream delivers the next closed kline, in order
RecvClosed ==
    /\ start_pc = "streaming" /\ hpc = "idle"
    /\ \E sym \in Symbols, close \in Prices, x \in Outcomes :
          LET n == NextCandle(sym)
          IN  /\ n <= MaxCandle
              /\ (n + 1) * Secs(sub_tf) <= now
              /\ HandleClosedKline(sym, n, close, x)
              /\ delivered' = [delivered EXCEPT ![sym] = n]
    /\ UNCHANGED <<worldVars, now, recent_signals, sig_window, streamVars>>

\* the stream delivers the last closed kline once more
RecvDuplicate ==
    /\ start_pc = "streaming" /\ hpc = "idle"
    /\ dups < MaxDup
    /\ dups' = dups + 1
    /\ \E sym \in Symbols, x \in Outcomes :
          /\ delivered[sym] >= 0
          /\ HandleClosedKline(sym, delivered[sym], last_price[sym], x)
    /\ UNCHANGED <<sideVars, restarts, cfg, filters, pause_flag, drifts, fails, now, recent_signals, sig_window,
                   streamVars, delivered>>

\* a kline update of the candle in progress (k.x false): heartbeat only
RecvUpdate ==
    /\ start_pc = "streaming" /\ hpc = "idle"
    /\ last_msg_ts' = now
    /\ last_tick_ts' = now
    /\ backoff' = 1
    /\ UNCHANGED <<worldVars, now, engineVars, last_price, gateVars, buffers, handlerVars,
                   streamVars, delivered>>

\* a message that is no kline event: handle_candles returns at once
RecvOther ==
    /\ start_pc = "streaming" /\ hpc = "idle"
    /\ backoff' = 1
    /\ UNCHANGED <<worldVars, now, engineVars, last_price, gateVars, buffers, handlerVars,
                   streamVars, delivered, last_msg_ts, last_tick_ts>>

\* one turn of the strategies loop of the kline being handled
Strategy ==
    /\ hpc = "strategies"
    /\ \E indicator \in Signals, usdt_free \in UsdtChoices, balance_ok \in BOOLEAN,
          x \in Outcomes :
          StrategyTurn(indicator, usdt_free, balance_ok, x)
    /\ UNCHANGED <<worldVars, now, last_price, buffers, last_msg_ts, last_tick_ts,
                   streamVars, delivered>>

\* start(): open the multiplexed subscription at self.timeframe, spawn the watchdog
Connect ==
    /\ start_pc = "connecting"
    /\ sub_tf' = timeframe
    /\ sub_since' = now
    /\ delivered' = [sym \in Symbols |-> -1]
    /\ watchdog' = "running"
    /\ wd_wake' = now + HeartbeatTimeout
    /\ start_pc' = "streaming"
    /\ UNCHANGED <<worldVars, now, engineVars, last_price, gateVars, buffers, handlerVars,
                   timeframe, tf_last_mtime, last_msg_ts, last_tick_ts, backoff,
                   sleep_until, tf_flag, tf_flag_mtime>>

\* opening the subscription raises: straight to the except block
ConnectFails ==
    /\ start_pc = "connecting"
    /\ fails < MaxFails
    /\ fails' = fails + 1
    /\ start_pc' = "backoff"
    /\ sleep_until' = now + backoff
    /\ UNCHANGED <<sideVars, restarts, cfg, filters, pause_flag, drifts, dups, now, engineVars, last_price, gateVars, buffers, handlerVars,
                   timeframe, tf_last_mtime, last_msg_ts, last_tick_ts, backoff,
                   watchdog, wd_wake, sub_tf, sub_since, delivered, tf_flag, tf_flag_mtime>>

\* stream.recv() raises: the subscription is left, the except block sleeps
StreamFails ==
    /\ start_pc = "streaming" /\ hpc = "idle"
    /\ fails < MaxFails
    /\ fails' = fails + 1
    /\ start_pc' = "backoff"
    /\ sleep_until' = now + backoff
    /\ sub_tf' = "none"
    /\ UNCHANGED <<sideVars, restarts, cfg, filters, pause_flag, drifts, dups, now, engineVars, last_price, gateVars, buffers, handlerVars,
                   timeframe, tf_last_mtime, last_msg_ts, last_tick_ts, backoff,
                   watchdog, wd_wake, sub_since, delivered, tf_flag, tf_flag_mtime>>

RECURSIVE BootstrapAll(_, _, _, _)
BootstrapAll(bufs, syms, tf, ok) ==
    IF syms = {} THEN bufs
    ELSE LET sym == CHOOSE s \in syms : TRUE
         IN  BootstrapAll(bootstrap_from_rest(bufs, sym, tf, ok), syms \ {sym}, tf, ok)

\* a backoff that doubles without a ceiling
next_backoff_uncapped(b) == b * 2

\* line 175: backoff = min(backoff * 2, 60)
next_backoff(b) == Min(b * 2, BackoffCap)

\* the sleep is over: double the backoff, re-bootstrap at self.timeframe (a failure
\* is logged and dropped), cancel the watchdog in the finally block, loop
BackoffDone ==
    /\ start_pc = "backoff"
    /\ now >= sleep_until
    /\ backoff' = next_backoff(backoff)
    /\ \E ok \in BOOLEAN : buffers' = BootstrapAll(buffers, Symbols, timeframe, ok)
    /\ watchdog' = IF watchdog = "running" THEN "cancelled" ELSE watchdog
    /\ start_pc' = "connecting"
    /\ UNCHANGED <<worldVars, now, engineVars, last_price, gateVars, handlerVars,
                   timeframe, tf_last_mtime, last_msg_ts, last_tick_ts,
                   sleep_until, wd_wake, sub_tf, sub_since, delivered, tf_flag, tf_flag_mtime>>

\* what one turn of the watchdog loop does once its sleep is over
watchdog_turn ==
    LET delta == now - last_msg_ts
        mtime == tf_flag_mtime
        new_tf == read_timeframe(tf_flag)
    IN  IF delta > HeartbeatTimeout
        THEN [ends |-> "timeout", timeframe |-> timeframe, tf_last_mtime |-> tf_last_mtime]
        ELSE IF mtime # 0 /\ mtime # tf_last_mtime /\ new_tf # timeframe
             THEN [ends |-> "changed", timeframe |-> new_tf, tf_last_mtime |-> mtime]
             ELSE [ends |-> "running", timeframe |-> timeframe, tf_last_mtime |-> tf_last_mtime]

\* watchdog(): the ConnectionError it raises ("timeout", "changed") ends the watchdog
\* task; nothing awaits that task, so start() is not told
WatchdogWake ==
    /\ watchdog = "running"
    /\ now >= wd_wake
    /\ LET w == watchdog_turn
       IN  /\ timeframe' = w.timeframe
           /\ tf_last_mtime' = w.tf_last_mtime
           /\ watchdog' = w.ends
           /\ wd_wake' = IF w.ends = "running" THEN now + HeartbeatTimeout ELSE wd_wake
    /\ UNCHANGED <<worldVars, now, engineVars, last_price, gateVars, buffers, handlerVars,
                   last_msg_ts, last_tick_ts, backoff, start_pc, sleep_until,
                   sub_tf, sub_since, delivered, tf_flag, tf_flag_mtime>>

\* a sleeping task whose asyncio.sleep is over and that has not run yet
TimerDue ==
    \/ watchdog = "running" /\ now >= wd_wake
    \/ start_pc = "backoff" /\ now >= sleep_until

\* the stream has delivered what it had to and the handler is through
Quiet ==
    /\ hpc = "idle"
    /\ ~(/\ start_pc = "streaming"
         /\ \E sym \in Symbols : /\ NextCandle(sym) <= MaxCandle
                                 /\ (NextCandle(sym) + 1) * Secs(sub_tf) <= now)

\* a task that can run without waiting: the seconds of the clock are long next to
\* the steps of start(), of the handler, and to the latency of the stream
Runnable ==
    \/ TimerDue
    \/ start_pc = "connecting"
    \/ ~Quiet

\* the clock advances by d seconds
Advance(d) ==
    /\ now + d <= MaxTime
    /\ now' = now + d
    /\ sig_window' = LiveWindows(sig_window, now + d, TtlSec)
    /\ UNCHANGED <<worldVars, engineVars, last_price, recent_signals, prot_run, buffers, handlerVars,
                   streamVars, delivered, last_msg_ts, last_tick_ts, backoff>>

\* time passes; the event loop runs the tasks whose sleep is over first
Tick ==
    /\ ~Runnable
    /\ Advance(TickSecs)

\* time passes to the close of the next candle
CandleTick ==
    /\ ~Runnable
    /\ Advance(Secs(timeframe))

\* the operator (or the dashboard) writes timeframe.flag
SetFlag ==
    /\ tf_flag_mtime < MaxFlagWrites + 1
    /\ \E tf \in TFs : tf_flag' = tf
    /\ tf_flag_mtime' = tf_flag_mtime + 1
    /\ UNCHANGED <<worldVars, now, engineVars, last_price, gateVars, buffers, handlerVars,
                   timeframe, tf_last_mtime, last_msg_ts, last_tick_ts, backoff, start_pc,
                   sleep_until, watchdog, wd_wake, sub_tf, sub_since, delivered>>

\* the operator creates or removes pause.flag
TogglePause ==
    /\ pause_flag' = ~pause_flag
    /\ UNCHANGED <<sideVars, restarts, cfg, filters, drifts, dups, fails, now, engineVars, last_price, gateVars, buffers, handlerVars,
                   streamVars, delivered, last_msg_ts, last_tick_ts, backoff>>

\* a lot of the base asset leaves the account outside the engine (commission, withdrawal)
WalletDrift ==
    /\ drifts < MaxDrift
    /\ drifts' = drifts + 1
    /\ \E sym \in Symbols :
          /\ wallet[sym] > 0
          /\ wallet' = [wallet EXCEPT ![sym] = @ - 1]
    /\ UNCHANGED <<sideVars, restarts, cfg, filters, pause_flag, dups, fails, now, last_buy_qty, last_buy_price, stop_price, take_price,
                   filters_cache, trades_today, realized_pnl_usdt, pnl_daily, trades,
                   locked, orders_filled, last_order, calls, result,
                   last_price, gateVars, buffers, handlerVars,
                   streamVars, delivered, last_msg_ts, last_tick_ts, backoff>>

\* the exchange executes a resting OCO: the locked lots are sold
OcoFills ==
    /\ \E sym \in Symbols :
          /\ locked[sym] > 0
          /\ locked' = [locked EXCEPT ![sym] = 0]
    /\ UNCHANGED <<worldVars, now, last_buy_qty, last_buy_price, stop_price, take_price,
                   filters_cache, trades_today, realized_pnl_usdt, pnl_daily, trades,
                   wallet, orders_filled, last_order, calls, result,
                   last_price, gateVars, buffers, handlerVars,
                   streamVars, delivered, last_msg_ts, last_tick_ts, backoff>>

(***************************************************************************)
(* bot/state.py : the state file below the snapshot                        *)
(***************************************************************************)
STATE_PATH == "state.json"

\* _DEFAULT, the fields the model keeps
DEFAULT == [last_tick_ts |-> 0, pnl_daily |-> 0, trades |-> << >>, recent_signals |-> << >>]

\* the document at STATE_PATH
StateFile ==
    [last_tick_ts |-> last_tick_ts, pnl_daily |-> pnl_daily, trades |-> trades,
     recent_signals |-> recent_signals]

NoTmp == [present |-> FALSE, complete |-> FALSE, data |-> DEFAULT]

(***************************************************************************)
(* Construction: WebSocketBot.__init__                                     *)
(***************************************************************************)
RECURSIVE reconcile_cost(_, _, _)
\* the walk over get_my_trades, most recent first: buys only, up to the wallet quantity
reconcile_cost(trs, rem, cost) ==
    IF trs = << >> \/ rem <= 0 THEN cost
    ELSE LET tr == Head(trs)
             take == Min(rem, tr.qty)
         IN  IF ~tr.isBuyer THEN reconcile_cost(Tail(trs), rem, cost)
             ELSE reconcile_cost(Tail(trs), rem - take, cost + take * tr.price)

Reverse(seq) == [i \in 1..Len(seq) |-> seq[Len(seq) + 1 - i]]

\* a reconciliation that walks the history from its oldest trade
reconcile_for_symbol_oldest(wallet_qty, history) ==
    IF wallet_qty <= 0 THEN <<0, 0>>
    ELSE <<wallet_qty, reconcile_cost(history, wallet_qty, 0) \div wallet_qty>>

\* reconcile_for_symbol: <<last_buy_qty, last_buy_price>> from the wallet and the history
reconcile_for_symbol(wallet_qty, history) ==
    IF wallet_qty <= 0 THEN <<0, 0>>
    ELSE <<wallet_qty, reconcile_cost(Reverse(history), wallet_qty, 0) \div wallet_qty>>

\* exchange constraints of a symbol: lots of one, or of two
UnitLots == [stepSize |-> 1, minQty |-> 1, tickSize |-> 1, minNotional |-> 100]
PairLots == [stepSize |-> 2, minQty |-> 2, tickSize |-> 1, minNotional |-> 100]

\* accounts the bot may be started on: the free balance and the trade history
AccountChoices ==
    { [wallet |-> 0, history |-> << >>],
      [wallet |-> 2, history |-> << [qty |-> 2, price |-> 100, isBuyer |-> TRUE] >>] }

BaseCfg ==
    [mode |-> "trade", timeframe |-> "1m", strategies |-> <<"ema_cross", "rsi">>,
     capital_per_trade_pct |-> 50, stop_loss_pct |-> 50, take_profit_pct |-> 100,
     max_daily_loss_pct |-> 5, max_trades_per_day |-> 3, capital_base_usdt |-> 1000,
     protective_orders_enabled |-> TRUE]

\* the state __init__ leaves behind, for a configuration, exchange constraints,
\* accounts, a flag file and a buffer capacity; conform_seq is left to the specification
InitBot(cfgs, flts, accounts, flags, caps) ==
    /\ cfg \in cfgs
    /\ maxlen \in caps
    /\ appended = << >>
    /\ filters \in [Symbols -> flts]
    /\ now = 0
    /\ pause_flag = FALSE
    /\ \E acct \in [Symbols -> accounts] :
          /\ wallet = [sym \in Symbols |-> acct[sym].wallet]
          /\ last_buy_qty =
                [sym \in Symbols |-> reconcile_for_symbol(acct[sym].wallet, acct[sym].history)[1]]
          /\ last_buy_price =
                [sym \in Symbols |-> reconcile_for_symbol(acct[sym].wallet, acct[sym].history)[2]]
    /\ stop_price = [sym \in Symbols |-> 0]
    /\ take_price = [sym \in Symbols |-> 0]
    /\ filters_cache = [sym \in Symbols |-> FALSE]
    /\ trades_today = 0
    /\ realized_pnl_usdt = 0
    /\ pnl_daily = 0
    /\ trades = << >>
    /\ recent_signals = << >>
    /\ last_tick_ts = 0
    /\ locked = [sym \in Symbols |-> 0]
    /\ last_price = [sym \in Symbols |-> 100]
    /\ orders_filled = 0
    /\ last_order = NoOrder
    /\ calls = {}
    /\ result = "none"
    /\ sig_window = << >>
    /\ prot_run = [sym \in Symbols |-> NoRun]
    /\ tf_flag \in flags
    /\ tf_flag_mtime = IF tf_flag = "none" THEN 0 ELSE 1
    /\ timeframe = read_timeframe(tf_flag)
    /\ tf_last_mtime = tf_flag_mtime
    /\ buffers = BootstrapAll([sym \in Symbols |-> [tf \in TFs |->
                                  [present |-> FALSE, candles |-> << >>]]],
                              Symbols, timeframe, TRUE)
    /\ last_msg_ts = now
    /\ backoff = 1
    /\ start_pc = "connecting"
    /\ sleep_until = 0
    /\ hpc = "idle"
    /\ hidx = 1
    /\ cur = NoMsg
    /\ watchdog = "none"
    /\ wd_wake = 0
    /\ sub_tf = "none"
    /\ sub_since = 0
    /\ delivered = [sym \in Symbols |-> -1]
    /\ drifts = 0
    /\ dups = 0
    /\ fails = 0
    /\ restarts = 0
    /\ reg_log = << >>
    /\ lock = 0
    /\ th = [t \in 1..NumThreads |->
               [pc |-> "idle", op |-> "none", pnl |-> 0, side |-> "", t |-> 0,
                base |-> DEFAULT, st |-> DEFAULT]]
    /\ tmp_file = NoTmp
    /\ torn = FALSE
    /\ seen = [complete |-> TRUE, writing |-> FALSE, data |-> DEFAULT]
    /\ retry = [attempt |-> 0, outcomes |-> << >>, status |-> "running", result |-> ""]

\* the bot as ws_manager builds it: MarketDataService(maxlen=2000)
InitWith(cfgs, flts, accounts, flags) ==
    /\ InitBot(cfgs, flts, accounts, flags, {BufMaxLen})
    /\ conform_seq = << >>

(***************************************************************************)
(* Specifications: the same program in several settings                    *)
(***************************************************************************)
\* a funded account on a healthy stream: the execution engine and the risk governor
ExecCfgs == { [BaseCfg EXCEPT !.strategies = <<"ema_cross">>] }

InitExec == InitWith(ExecCfgs, {PairLots}, AccountChoices, {"none"})

NextExec ==
    \/ Connect
    \/ RecvClosed
    \/ Strategy
    \/ WatchdogWake
    \/ CandleTick
    \/ WalletDrift
    \/ OcoFills

SpecExec == InitExec /\ [][NextExec]_vars

\* an account with nothing to trade, on a stream that repeats klines: the signal gate
SignalCfgs == { BaseCfg }

InitSignal == InitWith(SignalCfgs, {UnitLots}, {[wallet |-> 0, history |-> << >>]}, {"none"})

\* only an empty USDT balance is read here
EmptyStrategy ==
    /\ hpc = "strategies"
    /\ \E indicator \in Signals, balance_ok \in BOOLEAN, x \in Outcomes :
          StrategyTurn(indicator, 0, balance_ok, x)
    /\ UNCHANGED <<worldVars, now, last_price, buffers, last_msg_ts, last_tick_ts,
                   streamVars, delivered>>

NextSignal ==
    \/ Connect
    \/ RecvClosed
    \/ RecvDuplicate
    \/ EmptyStrategy
    \/ WatchdogWake
    \/ Tick

SpecSignal == InitSignal /\ [][NextSignal]_vars

\* the risk governor under the configurations of the daily loss cut
RiskCfgs ==
    { [BaseCfg EXCEPT !.strategies = <<"ema_cross">>, !.protective_orders_enabled = FALSE,
                      !.capital_base_usdt = cap, !.max_daily_loss_pct = pct] :
        cap \in {-1000, 0, 1000}, pct \in {0, 5} }

InitRisk == InitWith(RiskCfgs, {UnitLots}, {[wallet |-> 0, history |-> << >>]}, {"none"})

NextRisk ==
    \/ Connect
    \/ RecvClosed
    \/ Strategy
    \/ WatchdogWake
    \/ CandleTick

SpecRisk == InitRisk /\ [][NextRisk]_vars

\* a bot that only watches (mode is not "trade") on a stream that fails, under a flag
\* file that changes
StreamCfgs == { [BaseCfg EXCEPT !.strategies = <<"ema_cross">>, !.mode = "backtest"] }

InitStream == InitWith(StreamCfgs, {UnitLots}, {[wallet |-> 0, history |-> << >>]}, {"none"})

NextStream ==
    \/ Connect
    \/ ConnectFails
    \/ RecvClosed
    \/ RecvUpdate
    \/ RecvOther
    \/ EmptyStrategy
    \/ StreamFails
    \/ BackoffDone
    \/ WatchdogWake
    \/ Tick
    \/ SetFlag

SpecStream == InitStream /\ [][NextStream]_vars

\* the event loop runs every task that can run, and time does not stop
FairStream ==
    /\ SpecStream
    /\ WF_vars(Connect)
    /\ WF_vars(RecvClosed)
    /\ WF_vars(EmptyStrategy)
    /\ WF_vars(BackoffDone)
    /\ WF_vars(WatchdogWake)
    /\ WF_vars(Tick)

(***************************************************************************)
(* Properties                                                              *)
(***************************************************************************)
\* C1 as stated: with the pause flag absent, a (symbol, side, candle close time)
\* observed two or more times within the ttl has place_signal invoked exactly once
C1_ExactlyOnce ==
    \A k \in DOMAIN sig_window :
        (sig_window[k].obs >= 2 /\ ~sig_window[k].paused) => sig_window[k].placed = 1

\* C1 amended: with the pause flag absent, a (symbol, side, candle close time) observed
\* within the ttl has place_signal invoked at most once, and exactly once when it is
\* observed two or more times and the USDT balance read made for it succeeded
C1_AtMostOnce ==
    \A k \in DOMAIN sig_window :
        ~sig_window[k].paused =>
            /\ sig_window[k].placed <= 1
            /\ (sig_window[k].obs >= 2 /\ sig_window[k].balance_ok) => sig_window[k].placed = 1

\* a kline repeated later within the ttl found its signal recorded and placed once
C1_Witness ==
    \E k \in DOMAIN sig_window :
        /\ sig_window[k].obs >= 2
        /\ sig_window[k].placed = 1
        /\ sig_window[k].balance_ok
        /\ now > sig_window[k].start
        /\ dups > 0

\* C5 as stated: over a run of consecutive closes at or below the stop of an open
\* position, check_protective_exit triggers the protective sell exactly once
C5_OncePerRun == \A sym \in Symbols : prot_run[sym].triggers <= 1

\* C6 as stated: a stop or take price is stored only while the remembered quantity
\* is greater than zero
C6_LevelsOnlyWithPosition ==
    \A sym \in Symbols :
        (stop_price[sym] # 0 \/ take_price[sym] # 0) => last_buy_qty[sym] > 0

\* C7 as stated: a sell order the engine submits has a quantity that does not exceed
\* the wallet balance read in that sell attempt
C7_SellWithinWallet ==
    last_order.side = "sell" => last_order.qty <= last_order.wallet_read

\* C8 as stated: a buy whose desired spend is below minNotional is rejected without
\* any exchange call, leaving position, levels, risk counters and ledger as they were
C8_NoExchangeCall == result = "buy_below_min_notional" => calls = {}

\* C9 as stated: can_trade() is false exactly when the trade cap is reached, or a
\* capital base is configured and the realized PnL is at or below
\* -|capital base| * max_daily_loss_pct / 100
C9_AsStated ==
    can_trade(Engine) <=>
        ~ \/ trades_today >= cfg.max_trades_per_day
          \/ /\ cfg.capital_base_usdt # 0
             /\ realized_pnl_usdt * 100 <=
                    -(Abs(cfg.capital_base_usdt) * cfg.max_daily_loss_pct)

\* C9 amended: can_trade() is false exactly when the trade cap is reached, or the
\* capital base and max_daily_loss_pct are both greater than zero and the realized PnL
\* is at or below -capital base * max_daily_loss_pct / 100
C9_LossCut ==
    can_trade(Engine) <=>
        ~ \/ trades_today >= cfg.max_trades_per_day
          \/ /\ cfg.capital_base_usdt > 0
             /\ cfg.max_daily_loss_pct > 0
             /\ realized_pnl_usdt * 100 <=
                    -(cfg.capital_base_usdt * cfg.max_daily_loss_pct)

\* the loss cut alone blocks trading, below the trade cap
C9_Witness ==
    /\ ~can_trade(Engine)
    /\ trades_today < cfg.max_trades_per_day
    /\ realized_pnl_usdt < 0

\* C10: the number of register_trade calls equals the number of market orders placed
C10_RegisteredOncePerOrder == trades_today = orders_filled

\* a buy and a sell were placed, and an order was refused after them
C10_Witness ==
    /\ orders_filled >= 2
    /\ result = "raised"
    /\ last_order.qty > 0
    /\ ~last_order.accepted

\* C2 as stated: once the watchdog has seen the heartbeat timeout while the client is
\* streaming, start() eventually leaves the subscription to reconnect
\* (once the watchdog task has ended, start() waits in stream.recv() and no task is
\* left that could leave the subscription: a behaviour that refutes this stays on the
\* subscription up to the horizon MaxTime)
C2_TimeoutForcesReconnect ==
    (watchdog = "timeout" /\ start_pc = "streaming") ~> (start_pc = "backoff")

\* C3 as stated: generate_signal never reads a buffer in which two consecutive candles
\* are more than one timeframe interval apart
C3_NoGapRead ==
    hpc = "strategies" =>
        LET c == get_df(buffers, cur.symbol, strategy_interval)
        IN  \A i \in 1..(Len(c) - 1) :
                c[i + 1].open_time - c[i].open_time <= Secs(strategy_interval)

\* C4 as stated: once the timeframe has changed, no candle is appended and no signal
\* evaluated before the subscription at the new timeframe is open
C4_HandledAtActiveTimeframe == hpc = "strategies" => sub_tf = timeframe

(***************************************************************************)
(* Component harnesses: one component driven directly, from the state the  *)
(* constructor leaves                                                       *)
(***************************************************************************)
\* the sum of a sequence of numbers, by halves
SumSeq(seq) ==
    LET RECURSIVE Sum(_, _)
        Sum(lo, hi) == IF lo > hi THEN 0
                       ELSE IF lo = hi THEN seq[lo]
                       ELSE Sum(lo, (lo + hi) \div 2) + Sum((lo + hi) \div 2 + 1, hi)
    IN  Sum(1, Len(seq))

\* RiskManager.register_trade called on the governor, with a realised pnl in quote units
RegisterCall ==
    /\ Len(reg_log) < MaxCalls
    /\ \E pnl \in {-100, 0, 50} :
          /\ SetEngine(register_trade(Engine, pnl))
          /\ reg_log' = Append(reg_log, pnl)
    /\ UNCHANGED <<botVars, buffers, maxlen, appended, conform_seq, ledgerVars, retry>>

\* a fresh risk governor, and nothing but calls of register_trade
SpecRegister ==
    /\ InitWith(ExecCfgs, {UnitLots}, {[wallet |-> 0, history |-> << >>]}, {"none"})
    /\ [][RegisterCall]_vars

\* C11: after N register_trade calls on a fresh risk governor the trade count is N and the
\* realised pnl is the sum of the values passed
C11_CountAndSum ==
    /\ trades_today = Len(reg_log)
    /\ realized_pnl_usdt = SumSeq(reg_log)

C11_Witness ==
    /\ Len(reg_log) = MaxCalls
    /\ trades_today = MaxCalls
    /\ realized_pnl_usdt = -50

\* MarketDataService.on_kline_closed called with any closed kline, on a key that has no
\* buffer at first
AppendKline ==
    /\ Len(appended) < MaxAppends
    /\ \E sym \in Symbols, n \in 0..MaxCandle :
          /\ buffers' = on_kline_closed(buffers, sym, "3m", Kline("3m", n, TRUE))
          /\ appended' = Append(appended, Kline("3m", n, TRUE))
    /\ UNCHANGED <<botVars, engineVars, reg_log, maxlen, conform_seq, ledgerVars, retry>>

\* a MarketDataService of any small capacity, and nothing but calls of on_kline_closed
SpecBuffer ==
    /\ InitBot(SignalCfgs, {UnitLots}, {[wallet |-> 0, history |-> << >>]}, {"none"}, 1..MaxCap)
    /\ conform_seq = << >>
    /\ [][AppendKline]_vars

\* C12 as stated: the buffer never holds more than its capacity, and once more rows than
\* the capacity have been appended get_df returns the most recent `capacity` rows in order
C12_AsStated ==
    \A sym \in Symbols :
        /\ Len(buffers[sym]["3m"].candles) <= maxlen
        /\ Len(appended) > maxlen => get_df(buffers, sym, "3m") = LastN(appended, maxlen)

\* C12, amended: the same for a capacity of two rows or more; get_df returns an empty frame
\* while the buffer holds fewer than two rows, which is all a buffer of capacity one holds
C12_RecentWindow ==
    \A sym \in Symbols :
        /\ Len(buffers[sym]["3m"].candles) <= maxlen
        /\ (maxlen >= 2 /\ Len(appended) > maxlen)
               => get_df(buffers, sym, "3m") = LastN(appended, maxlen)

C12_Witness ==
    /\ maxlen = 2
    /\ Len(appended) = MaxAppends
    /\ appended[MaxAppends - 1].open_time > appended[MaxAppends].open_time
    /\ \A sym \in Symbols : get_df(buffers, sym, "3m") = LastN(appended, 2)

(***************************************************************************)
(* conform_qty_price as the program computes it, in binary floating point. *)
(* A float is held as an integer count of 2^-FracBits and carries MantBits *)
(* significant bits; every operation rounds its exact result to the        *)
(* nearest float, ties to even.                                            *)
(***************************************************************************)
RECURSIVE Pow2(_)
Pow2(k) == IF k = 0 THEN 1 ELSE 2 * Pow2(k - 1)

\* the spacing of the floats around x
RECURSIVE Ulp(_)
Ulp(x) == IF x < Pow2(MantBits) THEN 1 ELSE 2 * Ulp(x \div 2)

\* the float nearest to n / d
Fl(n, d) ==
    LET du == d * Ulp(n \div d)
        q == n \div du
        r == n % du
    IN  IF 2 * r > du \/ (2 * r = du /\ q % 2 = 1) THEN (q + 1) * (du \div d) ELSE q * (du \div d)

\* float(x) of a decimal literal x = n / d, as float('0.1') in get_symbol_filters
Float(n, d) == Fl(n * Pow2(FracBits), d)

\* round_step on floats: math.floor(value / step) * step
round_step_fp(value, step) ==
    IF step <= 0 THEN value
    ELSE LET quotient == Fl(value * Pow2(FracBits), step)
             floor == quotient \div Pow2(FracBits)
         IN  Fl(floor * step, 1)

\* conform_qty_price on floats; round_tick has the body of round_step
conform_qty_price_fp(flt, qty, price) ==
    <<Max(round_step_fp(qty, flt.stepSize), flt.minQty), round_step_fp(price, flt.tickSize)>>

\* LOT_SIZE / PRICE_FILTER as the exchange publishes them: 0.1, 0.2, 0.25, or none
FpFilters ==
    [stepSize : {0, Float(1, 10), Float(1, 5), Float(1, 4)},
     minQty : {0, Float(1, 10), Float(1, 2)},
     tickSize : {0, Float(1, 10), Float(1, 4)},
     minNotional : {0}]

\* conform_qty_price applied to its arguments, then to its own result
Conform ==
    /\ Len(conform_seq) < 3
    /\ \E sym \in Symbols :
          conform_seq' = Append(conform_seq,
                                conform_qty_price_fp(filters[sym], conform_seq[Len(conform_seq)][1],
                                                     conform_seq[Len(conform_seq)][2]))
    /\ UNCHANGED <<botVars, engineVars, buffers, reg_log, maxlen, appended, ledgerVars, retry>>

\* any filter set, any quantity from one unit of 2^-FracBits to 1.5 * 2^MantBits units and a
\* price of 2.5 or 1.0625, and nothing but calls of conform_qty_price
SpecConform ==
    /\ InitBot(SignalCfgs, FpFilters, {[wallet |-> 0, history |-> << >>]}, {"none"}, {BufMaxLen})
    /\ conform_seq \in { <<<<Fl(v, 1), price>>>> : v \in 1..(3 * Pow2(MantBits - 1)),
                                                  price \in {Float(5, 2), Float(17, 16)} }
    /\ [][Conform]_vars

\* C13: conform_qty_price applied to its own result returns that result, for every
\* quantity, price and filter set
C13_Idempotent == Len(conform_seq) = 3 => conform_seq[3] = conform_seq[2]

(***************************************************************************)
(* The process is stopped and started again: WebSocketBot.__init__ runs    *)
(* once more, on the account, the files and the stream as they are         *)
(***************************************************************************)
\* get_my_trades of an account that nobody but the bot has traded on
TradeHistory(sym) ==
    [i \in 1..Len(trades) |->
        [qty |-> trades[i].qty, price |-> trades[i].price, isBuyer |-> trades[i].side = "buy"]]

\* __init__: fresh buffers bootstrapped, a fresh RiskState and engine, set_initial on the
\* state file (lines 45-52: heartbeat, pnl, ledger and recent signals emptied), reconcile_all
Restart ==
    /\ restarts < MaxRestarts
    /\ restarts' = restarts + 1
    /\ timeframe' = read_timeframe(tf_flag)
    /\ tf_last_mtime' = tf_flag_mtime
    /\ buffers' = BootstrapAll([sym \in Symbols |-> [tf \in TFs |->
                                   [present |-> FALSE, candles |-> << >>]]],
                               Symbols, read_timeframe(tf_flag), TRUE)
    /\ trades_today' = 0
    /\ realized_pnl_usdt' = 0
    /\ stop_price' = [sym \in Symbols |-> 0]
    /\ take_price' = [sym \in Symbols |-> 0]
    /\ filters_cache' = [sym \in Symbols |-> FALSE]
    /\ last_tick_ts' = 0
    /\ pnl_daily' = 0
    /\ trades' = << >>
    /\ recent_signals' = << >>
    /\ last_msg_ts' = now
    /\ last_buy_qty' = [sym \in Symbols |-> reconcile_for_symbol(wallet[sym], TradeHistory(sym))[1]]
    /\ last_buy_price' = [sym \in Symbols |-> reconcile_for_symbol(wallet[sym], TradeHistory(sym))[2]]
    /\ backoff' = 1
    /\ start_pc' = "connecting"
    /\ sleep_until' = 0
    /\ hpc' = "idle" /\ hidx' = 1 /\ cur' = NoMsg
    /\ watchdog' = "none"
    /\ wd_wake' = 0
    /\ sub_tf' = "none"
    /\ sub_since' = 0
    /\ UNCHANGED <<cfg, filters, pause_flag, drifts, dups, fails, sideVars, now, wallet, locked,
                   last_price, orders_filled, last_order, calls, result, sig_window, prot_run,
                   tf_flag, tf_flag_mtime, delivered>>

\* the first closed kline of the new subscription is the latest closed one, which the
\* process had received before it was started again
RecvReplay ==
    /\ start_pc = "streaming" /\ hpc = "idle"
    /\ restarts > 0
    /\ dups < MaxDup
    /\ dups' = dups + 1
    /\ \E sym \in Symbols, x \in Outcomes :
          /\ delivered[sym] = -1
          /\ now \div Secs(sub_tf) >= 1
          /\ HandleClosedKline(sym, (now \div Secs(sub_tf)) - 1, last_price[sym], x)
    /\ UNCHANGED <<sideVars, restarts, cfg, filters, pause_flag, drifts, fails, now,
                   recent_signals, sig_window, streamVars, delivered>>

\* a funded account without protective orders, on a healthy stream, restarted once
SpecRestart ==
    /\ InitWith({ [BaseCfg EXCEPT !.strategies = <<"ema_cross">>,
                                  !.protective_orders_enabled = FALSE] },
                {UnitLots}, {[wallet |-> 0, history |-> << >>]}, {"none"})
    /\ [][Connect \/ RecvClosed \/ RecvReplay \/ Strategy \/ WatchdogWake \/ CandleTick
            \/ Restart]_vars

\* C14: when the process is started again within the ttl after place_signal was invoked for
\* a signal, the same signal observed again does not lead to a second place_signal call
\* that puts an order on the exchange
C14_NoSecondOrder ==
    ~ /\ restarts > 0
      /\ orders_filled >= 2
      /\ result = "executed"
      /\ \E k \in DOMAIN sig_window : sig_window[k].placed >= 2

(***************************************************************************)
(* start() and handle_candles are one task: line 170 awaits handle_candles *)
(* before line 169 receives again, and handle_candles awaits the thread    *)
(* that runs place_signal (line 136); check_protective_exit (line 106) and *)
(* get_asset_balance (line 134) run on the event loop itself               *)
(***************************************************************************)
\* a funded account on a healthy stream that also sends the updates of the open kline
SpecIngest ==
    /\ InitWith(ExecCfgs, {UnitLots}, AccountChoices, {"none"})
    /\ [][Connect \/ RecvClosed \/ RecvUpdate \/ Strategy \/ WatchdogWake \/ CandleTick]_vars

\* C15: while the handler of a closed kline is at its strategies (placing orders), the
\* task that consumes the stream can take the next message and update the heartbeat
C15_IngestWhilePlacing ==
    (start_pc = "streaming" /\ hpc = "strategies") => ENABLED RecvUpdate

(***************************************************************************)
(* bot/state.py called from several threads of the process, while the      *)
(* dashboard, another process, reads the file.  Every function is          *)
(* `with _lock: st = _read(); <change st>; _write(st)`, and _write is      *)
(* open(tmp, "w"), json.dump, os.replace(tmp, STATE_PATH).                  *)
(***************************************************************************)
\* a lock that lets everybody in
lock_ignored(l) == TRUE

\* `with _lock` may enter
lock_free(l) == l = 0

\* _write straight into the file
tmp_path_same(path) == path

\* tmp = STATE_PATH + ".tmp"
tmp_path(path) == path \o ".tmp"

\* _read: the document, or _DEFAULT when json.load raises
read_file == IF torn THEN DEFAULT ELSE StateFile

\* what one call makes of the snapshot it read
changed_snapshot(st, op, pnl, side) ==
    CASE op = "set_last_tick_now" -> [st EXCEPT !.last_tick_ts = now]
      [] op = "append_trade" -> append_trade(st, "BTCUSDT", "buy", 1, 100, pnl)
      [] op = "add_recent_signal" ->
             [st EXCEPT !.recent_signals = add_recent_signal(@, "BTCUSDT", side, 59, now, TtlSec)]
      [] op = "is_recent_signal" ->
             [st EXCEPT !.recent_signals = is_recent_signal_kept(@, now, TtlSec)]

\* everything but the lock, the threads and the two files
ledgerRest ==
    <<cfg, filters, pause_flag, drifts, dups, fails, restarts, now, last_price, sig_window,
      prot_run, handlerVars, last_msg_ts, backoff, streamVars, delivered, buffers,
      last_buy_qty, last_buy_price, stop_price, take_price, filters_cache, trades_today,
      realized_pnl_usdt, wallet, locked, orders_filled, last_order, calls, result,
      reg_log, maxlen, appended, conform_seq, retry>>

fileVars == <<last_tick_ts, pnl_daily, trades, recent_signals>>

\* a thread enters `with _lock` and reads: st = _read(), then the change made to st
Call ==
    \E t \in 1..NumThreads,
       op \in {"set_last_tick_now", "append_trade", "add_recent_signal", "is_recent_signal"},
       pnl \in {-100, 50}, side \in Sides :
        /\ th[t].pc = "idle"
        /\ lock_free(lock)
        /\ op # "append_trade" => pnl = 50
        /\ op \in {"set_last_tick_now", "append_trade"} => side = "buy"
        /\ lock' = t
        /\ th' = [th EXCEPT ![t] = [pc |-> "read", op |-> op, pnl |-> pnl, side |-> side,
                                    t |-> now, base |-> read_file,
                                    st |-> changed_snapshot(read_file, op, pnl, side)]]
        /\ UNCHANGED <<ledgerRest, fileVars, tmp_file, torn, seen>>

\* _write: open(tmp, "w") creates or truncates the file
OpenTmp ==
    \E t \in 1..NumThreads :
        /\ th[t].pc = "read"
        /\ th' = [th EXCEPT ![t].pc = "open"]
        /\ IF tmp_path(STATE_PATH) = STATE_PATH
           THEN torn' = TRUE /\ UNCHANGED tmp_file
           ELSE tmp_file' = [present |-> TRUE, complete |-> FALSE, data |-> DEFAULT]
                /\ UNCHANGED torn
        /\ UNCHANGED <<ledgerRest, fileVars, lock, seen>>

\* _write: json.dump and the end of the `with open` block
Dump ==
    \E t \in 1..NumThreads :
        /\ th[t].pc = "open"
        /\ th' = [th EXCEPT ![t].pc = "dumped"]
        /\ IF tmp_path(STATE_PATH) = STATE_PATH
           THEN /\ last_tick_ts' = th[t].st.last_tick_ts
                /\ pnl_daily' = th[t].st.pnl_daily
                /\ trades' = th[t].st.trades
                /\ recent_signals' = th[t].st.recent_signals
                /\ torn' = FALSE
                /\ UNCHANGED tmp_file
           ELSE /\ tmp_file' = [present |-> TRUE, complete |-> TRUE, data |-> th[t].st]
                /\ UNCHANGED <<fileVars, torn>>
        /\ UNCHANGED <<ledgerRest, lock, seen>>

\* _write: os.replace(tmp, STATE_PATH), then the `with _lock` block ends
Replace ==
    \E t \in 1..NumThreads :
        /\ th[t].pc = "dumped"
        /\ th' = [th EXCEPT ![t].pc = "done"]
        /\ lock' = IF lock = t THEN 0 ELSE lock
        /\ IF tmp_path(STATE_PATH) # STATE_PATH /\ tmp_file.present
           THEN /\ last_tick_ts' = tmp_file.data.last_tick_ts
                /\ pnl_daily' = tmp_file.data.pnl_daily
                /\ trades' = tmp_file.data.trades
                /\ recent_signals' = tmp_file.data.recent_signals
                /\ torn' = ~tmp_file.complete
                /\ tmp_file' = NoTmp
           ELSE UNCHANGED <<fileVars, torn, tmp_file>>
        /\ UNCHANGED <<ledgerRest, seen>>

\* the dashboard, another process: index() calls get_state(), which opens STATE_PATH
DashboardRead ==
    /\ seen' = [complete |-> ~torn, writing |-> \E t \in 1..NumThreads : th[t].pc = "open",
                data |-> StateFile]
    /\ UNCHANGED <<ledgerRest, fileVars, lock, th, tmp_file, torn>>

\* a second passes
ClockStep ==
    /\ now < MaxClock
    /\ Advance(1)

\* the state file after set_initial, threads calling into bot/state.py, the dashboard
SpecLedger ==
    /\ InitWith(SignalCfgs, {UnitLots}, {[wallet |-> 0, history |-> << >>]}, {"none"})
    /\ [][Call \/ OpenTmp \/ Dump \/ Replace \/ DashboardRead \/ ClockStep]_vars

\* C16: whatever the interleaving of set_last_tick_now, append_trade, add_recent_signal and
\* is_recent_signal calls from threads of the process, nobody changes the file between a
\* call's read and its write, and the file holds the update of every call that returned
C16_AtomicUpdates ==
    LET done(op) == {t \in 1..NumThreads : th[t].pc = "done" /\ th[t].op = op}
    IN  /\ \A t \in 1..NumThreads :
              th[t].pc \in {"read", "open", "dumped"} => (lock = t /\ th[t].base = StateFile)
        /\ Len(trades) = Cardinality(done("append_trade"))
        /\ pnl_daily = SumSeq([t \in 1..NumThreads |->
                                  IF t \in done("append_trade") THEN th[t].pnl ELSE 0])
        /\ \A t \in done("add_recent_signal") :
              \E i \in 1..Len(recent_signals) :
                  recent_signals[i].side = th[t].side /\ recent_signals[i].ts = th[t].t
        /\ \A t \in done("set_last_tick_now") : last_tick_ts >= th[t].t
        /\ last_tick_ts # 0 => \E t \in done("set_last_tick_now") : last_tick_ts = th[t].t

C16_Witness ==
    /\ \A t \in 1..NumThreads : th[t].pc = "done"
    /\ Len(trades) = 1
    /\ Len(recent_signals) = 1
    /\ pnl_daily = -100

\* C17: the dashboard, reading while a thread of the bot writes, meets a complete document,
\* the previous one or the new one, and never a partly written one
C17_ReaderSeesWhole ==
    /\ ~torn
    /\ seen.complete
    /\ seen.writing =>
          \E t \in 1..NumThreads : seen.data = th[t].base \/ seen.data = th[t].st

C17_Witness ==
    /\ seen.writing
    /\ seen.complete
    /\ Len(seen.data.trades) = 1
    /\ Len(trades) = 2

(***************************************************************************)
(* bot/binance_client.py : _with_retries, one turn of its loop per step    *)
(***************************************************************************)
\* a loop that never gives up
with_retries_unbounded(r, out) ==
    IF out.ok
    THEN [r EXCEPT !.outcomes = Append(@, out), !.status = "returned", !.result = out.v]
    ELSE [r EXCEPT !.outcomes = Append(@, out), !.attempt = @ + 1]

\* try: return fn(...); except: attempt += 1; if attempt > _retries: raise; time.sleep(...)
with_retries(r, out) ==
    IF out.ok
    THEN [r EXCEPT !.outcomes = Append(@, out), !.status = "returned", !.result = out.v]
    ELSE IF r.attempt + 1 > Retries
         THEN [r EXCEPT !.outcomes = Append(@, out), !.attempt = @ + 1,
                        !.status = "raised", !.result = out.v]
         ELSE [r EXCEPT !.outcomes = Append(@, out), !.attempt = @ + 1]

\* fn is invoked and returns a value or raises an exception
Invoke ==
    /\ retry.status = "running"
    /\ \E out \in [ok : {TRUE}, v : {"filled", "rejected"}]
                     \cup [ok : {FALSE}, v : {"timeout", "api_error"}] :
          retry' = with_retries(retry, out)
    /\ UNCHANGED <<botVars, engineVars, buffers, reg_log, maxlen, appended, conform_seq,
                   ledgerVars>>

\* one call of _with_retries, whatever fn does at each invocation
SpecRetry ==
    /\ InitWith(SignalCfgs, {UnitLots}, {[wallet |-> 0, history |-> << >>]}, {"none"})
    /\ [][Invoke]_vars

\* C18: _with_retries invokes fn at most 6 times, returns the value of the first invocation
\* that succeeds, and raises fn's exception once 6 invocations have failed; until then it
\* goes on, so that it ends after 6 invocations at the latest
C18_BoundedRetries ==
    LET n == Len(retry.outcomes)
    IN  /\ n <= Retries + 1
        /\ \A i \in 1..(n - 1) : ~retry.outcomes[i].ok
        /\ retry.status = "returned" =>
              retry.outcomes[n].ok /\ retry.result = retry.outcomes[n].v
        /\ retry.status = "raised" =>
              n = Retries + 1 /\ ~retry.outcomes[n].ok /\ retry.result = retry.outcomes[n].v
        /\ retry.status = "running" => (n <= Retries /\ ENABLED Invoke)

C18_Witness ==
    /\ retry.status = "raised"
    /\ Len(retry.outcomes) = 6
    /\ retry.outcomes[1].v # retry.outcomes[6].v

\* C19: in every buffer the candles are in strictly increasing order of open time, with no
\* candle twice, across the bootstrap, the live appends and the bootstrap after a reconnect
C19_StrictlyIncreasing ==
    \A sym \in Symbols, tf \in TFs :
        LET c == buffers[sym][tf].candles
        IN  \A i \in 1..(Len(c) - 1) : c[i].open_time < c[i + 1].open_time

\* C20: every candle in a buffer is a closed one: neither a stream event of a kline still
\* open nor the kline in progress at the end of the historical fetch is stored
C20_OnlyClosedCandles ==
    \A sym \in Symbols, tf \in TFs :
        \A i \in 1..Len(buffers[sym][tf].candles) : buffers[sym][tf].candles[i].final

(***************************************************************************)
(* The pause flag                                                          *)
(***************************************************************************)
\* a funded account on a healthy stream while the operator creates and removes pause.flag
SpecPause ==
    /\ InitWith(ExecCfgs, {UnitLots}, AccountChoices, {"none"})
    /\ [][Connect \/ RecvClosed \/ Strategy \/ TogglePause \/ WatchdogWake \/ CandleTick]_vars

\* C21: a turn of the strategies loop that finds the pause flag present does not invoke
\* place_signal: the engine, the account, the risk counters, the ledger and the record
\* of exchange calls and orders are left as they were, and no signal is counted as placed
C21_PausedNotForwarded ==
    [][(hpc = "strategies" /\ pause_flag) =>
          /\ UNCHANGED engineVars
          /\ \A k \in DOMAIN sig_window' :
                sig_window'[k].placed =
                    IF k \in DOMAIN sig_window THEN sig_window[k].placed ELSE 0]_vars

\* a buy or sell signal was met with the flag present, recorded in the recent-signal
\* window and not placed, on an account that could have traded
C21_Witness ==
    /\ pause_flag
    /\ hpc = "idle"
    /\ recent_signals # << >>
    /\ \E k \in DOMAIN sig_window :
          /\ sig_window[k].paused
          /\ sig_window[k].placed = 0
    /\ orders_filled = 0
    /\ calls = {}

(***************************************************************************)
(* The reconnect loop of start()                                           *)
(***************************************************************************)
\* the try block of start() raises: opening the subscription, stream.recv(), or
\* handle_candles before its strategies loop (heard: past line 91, the heartbeat was
\* taken); the except block sleeps for the current backoff
Outage ==
    /\ start_pc \in {"connecting", "streaming"} /\ hpc = "idle"
    /\ now + backoff <= MaxTime
    /\ start_pc' = "backoff"
    /\ sleep_until' = now + backoff
    /\ sub_tf' = IF start_pc = "streaming" THEN "none" ELSE sub_tf
    /\ \E heard \in BOOLEAN :
          last_msg_ts' = IF heard /\ start_pc = "streaming" THEN now ELSE last_msg_ts
    /\ UNCHANGED <<worldVars, now, engineVars, last_price, gateVars, buffers, handlerVars,
                   timeframe, tf_last_mtime, last_tick_ts, backoff,
                   watchdog, wd_wake, sub_since, delivered, tf_flag, tf_flag_mtime>>

\* every task sleeps: the clock runs to the first asyncio.sleep that ends
Sleep ==
    /\ ~Runnable
    /\ LET timers == {wd_wake : w \in {watchdog} \cap {"running"}}
                        \cup {sleep_until : p \in {start_pc} \cap {"backoff"}}
       IN  /\ timers # {}
           /\ Advance((CHOOSE t \in timers : \A u \in timers : t <= u) - now)

\* a stream that fails again and again, as long as the horizon leaves room for the sleep
SpecBackoff ==
    /\ InitStream
    /\ [][Connect \/ Outage \/ RecvClosed \/ EmptyStrategy \/ BackoffDone
            \/ WatchdogWake \/ Sleep]_vars
    /\ WF_vars(BackoffDone)
    /\ WF_vars(WatchdogWake)
    /\ WF_vars(Sleep)

\* C22: the backoff starts at 1; a failure of the try block sends start() to sleep for
\* the current backoff; the sleep ends only when that time has passed, with a new
\* connection attempt and the backoff doubled up to 60; a handled message sets the
\* backoff to 1; nothing else changes it; and every failure is followed by a new
\* connection attempt
C22_BackoffSchedule ==
    /\ backoff = 1
    /\ [][/\ (start_pc # "backoff" /\ start_pc' = "backoff") =>
                (sleep_until' = now + backoff /\ backoff' = backoff)
          /\ (start_pc = "backoff" /\ start_pc' # "backoff") =>
                /\ start_pc' = "connecting"
                /\ now >= sleep_until
                /\ backoff' = IF backoff * 2 <= 60 THEN backoff * 2 ELSE 60
          /\ (start_pc = "streaming" /\ start_pc' = "streaming" /\ hpc' = "idle"
                /\ (hpc = "strategies" \/ last_msg_ts' # last_msg_ts)) => backoff' = 1
          /\ (start_pc' = start_pc /\ backoff' # backoff) =>
                (start_pc = "streaming" /\ backoff' = 1)
          /\ backoff' \in 1..60]_vars
    /\ (start_pc = "backoff") ~> (start_pc = "connecting")

\* the seventh failure in a row: start() sleeps for the full 60 seconds
C22_Witness ==
    /\ start_pc = "backoff"
    /\ backoff = BackoffCap
    /\ sleep_until = now + BackoffCap

(***************************************************************************)
(* bot/state.py : the trade ledger over more appends than it keeps,        *)
(* and the daily pnl                                                       *)
(***************************************************************************)
\* append_trade called on the state file set_initial left; the quantity numbers the
\* calls; the pnl is free on the first two calls and on those past the ledger's
\* capacity, zero between; a buy carries no pnl
AppendTrade ==
    /\ Len(reg_log) < LedgerCap + MaxCalls
    /\ \E side \in Sides, pnl \in {-3, 0, 2} :
          /\ (Len(reg_log) >= 2 /\ Len(reg_log) < LedgerCap) => pnl = 0
          /\ side = "buy" <=> pnl = 0
          /\ SetEngine(append_trade(Engine, "BTCUSDT", side, Len(reg_log) + 1, 100, pnl))
          /\ reg_log' = Append(reg_log, [ts |-> now, symbol |-> "BTCUSDT", side |-> side,
                                         qty |-> Len(reg_log) + 1, price |-> 100,
                                         pnl |-> pnl])
    /\ UNCHANGED <<botVars, buffers, maxlen, appended, conform_seq, ledgerVars, retry>>

\* the state file after set_initial, and nothing but calls of append_trade
SpecTrades ==
    /\ InitWith(ExecCfgs, {UnitLots}, {[wallet |-> 0, history |-> << >>]}, {"none"})
    /\ [][AppendTrade]_vars

\* C23: after any sequence of append_trade calls the ledger holds at most 200 entries,
\* they are the most recently appended ones in their order, and pnl_daily is the sum of
\* the pnl of every trade appended since set_initial, dropped ones included
C23_LedgerWindow ==
    LET n == Len(reg_log)
        k == IF n <= 200 THEN n ELSE 200
    IN  /\ Len(trades) <= 200
        /\ Len(trades) = k
        /\ \A i \in 1..k : trades[i] = reg_log[n - k + i]
        /\ pnl_daily = SumSeq([i \in 1..n |-> reg_log[i].pnl])

\* more than 200 trades were appended and the two dropped ones carried a pnl that the
\* entries still held do not add up to
C23_Witness ==
    /\ Len(reg_log) = LedgerCap + 2
    /\ Len(trades) = LedgerCap
    /\ reg_log[1].pnl = -3
    /\ reg_log[2].pnl = 2
    /\ trades[1].qty = 3
    /\ pnl_daily # SumSeq([i \in 1..Len(trades) |-> trades[i].pnl])

(***************************************************************************)
(* bot/market_data.py : bootstrap of a key that has a buffer               *)
(***************************************************************************)
\* MarketDataService.bootstrap_from_rest called for timeframe tf; calls takes the REST
\* call it made, result how it ended
Bootstrap(tf) ==
    /\ \E sym \in Symbols, ok \in BOOLEAN :
          /\ buffers' = bootstrap_from_rest(buffers, sym, tf, ok)
          /\ calls' = IF bootstrap_fetches(buffers, sym, tf) THEN {"klines"} ELSE {}
          /\ result' = IF ~bootstrap_fetches(buffers, sym, tf) THEN "bootstrap_skipped"
                       ELSE IF ok THEN "bootstrapped" ELSE "raised"
    /\ UNCHANGED <<botVars, last_buy_qty, last_buy_price, stop_price, take_price,
                   filters_cache, trades_today, realized_pnl_usdt, pnl_daily, trades,
                   wallet, locked, orders_filled, last_order, reg_log, maxlen, appended,
                   conform_seq, ledgerVars, retry>>

\* the market data service after construction, under klines arriving on the 3m key and
\* bootstrap calls on either key
SpecBootstrap ==
    /\ InitWith(SignalCfgs, {UnitLots}, {[wallet |-> 0, history |-> << >>]}, {"none"})
    /\ [][AppendKline \/ \E tf \in TFs : Bootstrap(tf)]_vars

\* C24: a bootstrap_from_rest call for a (symbol, timeframe) key that has a buffer
\* leaves every buffer as it was and makes no historical fetch
C24_BootstrapNoOp ==
    [][\A tf \in TFs :
          (Bootstrap(tf) /\ \A sym \in Symbols : buffers[sym][tf].present) =>
              (buffers' = buffers /\ "klines" \notin calls')]_vars

\* a bootstrap was skipped on the 3m key, whose buffer the stream had filled with
\* klines no fetch would return
C24_Witness ==
    /\ result = "bootstrap_skipped"
    /\ calls = {}
    /\ \E sym \in Symbols :
          /\ buffers[sym]["3m"].present
          /\ Len(buffers[sym]["3m"].candles) >= 2
          /\ buffers[sym]["3m"].candles # LastN(get_klines("3m", BootstrapLimit), maxlen)

(***************************************************************************)
(* The watchdog task next to the stream-consuming task                     *)
(***************************************************************************)
\* C25 as stated: whenever the subscription is open and start() consumes the stream, a
\* watchdog task is running alongside it
\* (watchdog is the one task start() created last: "running" while it is alive,
\* "timeout" or "changed" once the ConnectionError it raised has ended it)
C25_WatchdogWhileStreaming == start_pc = "streaming" => watchdog = "running"

(***************************************************************************)
(* The execution engine: attempts that place no order, the sell path, the  *)
(* buy path                                                                *)
(***************************************************************************)
\* C26: a buy or sell attempt that ends without a filled order (abandoned for a
\* minimum-notional or quantity constraint, or the order call raised) returns no
\* execution result and leaves the position, the protective levels, the risk counters,
\* the ledger and the daily pnl as they were
C26_FailedAttemptFrame ==
    [][result' \in {"raised", "buy_below_min_notional", "buy_fallback_below_min_notional",
                    "sell_no_position", "sell_below_min_qty", "sell_below_min_notional"} =>
          /\ UNCHANGED <<last_buy_qty, last_buy_price, stop_price, take_price>>
          /\ UNCHANGED <<trades_today, realized_pnl_usdt, trades, pnl_daily>>
          /\ orders_filled' = orders_filled]_vars

\* a sell order was refused while a position with its levels was held: position,
\* levels, the one trade counted and the one ledger entry are those of the buy
C26_Witness ==
    /\ result = "raised"
    /\ last_order.side = "sell"
    /\ ~last_order.accepted
    /\ trades_today = 1
    /\ Len(trades) = 1
    /\ \E sym \in Symbols :
          /\ last_buy_qty[sym] > 0
          /\ stop_price[sym] # 0
          /\ trades[1].side = "buy"

\* the engine on a symbol whose minNotional is no multiple of price times step, with
\* half or three tenths of the free balance spent on a buy
SpecOrders ==
    /\ InitWith({[c EXCEPT !.capital_per_trade_pct = pct] : c \in ExecCfgs, pct \in {30, 50}},
                {[UnitLots EXCEPT !.minNotional = 120]}, AccountChoices, {"none"})
    /\ [][NextExec]_vars

\* C27 as stated: a sell is aborted for minNotional only when no quantity that is a
\* multiple of the step, at least minQty and at most the wallet balance has a notional
\* of minNotional or more at the last price
\* (the step is one of the handler; the symbol and the price are those it handles)
C27_AbortOnlyWhenNoQuantity ==
    [][(result' = "sell_below_min_notional" /\ (hpc = "strategies" \/ delivered' # delivered)) =>
          LET sym == IF hpc = "strategies" THEN cur.symbol ELSE cur'.symbol
              flt == filters[sym]
          IN  ~ \E q \in 1..wallet[sym] :
                    /\ q % flt.stepSize = 0
                    /\ q >= flt.minQty
                    /\ q * last_price'[sym] >= flt.minNotional]_vars

\* C28 as stated: a sell whose available quantity, min(remembered quantity, wallet
\* balance) floored to the step size, is below minQty places no sell order
\* (last_order is the order request the engine's last operation submitted, with the
\* wallet balance it had read and the quantity it remembered)
C28_BelowMinQtyRejected ==
    last_order.side = "sell" =>
        round_step(Min(last_order.held, last_order.wallet_read),
                   filters[last_order.symbol].stepSize)
            >= filters[last_order.symbol].minQty

\* C29: a forwarded buy whose spend is minNotional or more attempts the quote order;
\* a base-quantity order is submitted only in a buy whose quote order was attempted and
\* did not fill, for conform(spend / last price), and only when that quantity times the
\* last price is minNotional or more; a fallback below minNotional submits no
\* base-quantity order; and at most one order fills per buy
C29_QuoteThenBase ==
    [][(hpc = "strategies" /\ ("order_quote" \in calls' \/ last_order'.side = "buy")
          /\ sig_window' # sig_window) =>
          LET sym == cur.symbol
              flt == filters[sym]
              last == last_price[sym]
              filled == orders_filled' - orders_filled
          IN  /\ "order_quote" \in calls'
              /\ filled <= 1
              /\ "order_qty" \in calls' =>
                    /\ last_order'.side = "buy"
                    /\ filled = IF last_order'.accepted THEN 1 ELSE 0
                    /\ last_order'.qty * last >= flt.minNotional
                    /\ \E usdt \in UsdtChoices :
                          LET spend == (usdt * cfg.capital_per_trade_pct) \div 100
                              lots == (spend \div (last * flt.stepSize)) * flt.stepSize
                          IN  /\ spend >= flt.minNotional
                              /\ last_order'.qty = IF lots >= flt.minQty THEN lots
                                                   ELSE flt.minQty
              /\ result' = "buy_fallback_below_min_notional" =>
                    ("order_qty" \notin calls' /\ filled = 0)]_vars

\* the quote order failed and the base-quantity order that followed it filled: the one
\* order of that buy
C29_Witness ==
    /\ {"order_quote", "order_qty"} \subseteq calls
    /\ last_order.side = "buy"
    /\ last_order.accepted
    /\ result = "executed"
    /\ orders_filled = 1

(***************************************************************************)
(* bot/execution.py : reconciliation                                       *)
(***************************************************************************)
\* reconcile_for_symbol called on an account found with a balance w of the base asset
\* and a trade history h (oldest trade first, as get_my_trades returns it); reg_log
\* takes the history; it is called once, by the constructor
Reconcile ==
    /\ result = "none"
    /\ result' = "reconciled"
    /\ \E sym \in Symbols, w \in 0..MaxCalls, n \in 0..MaxCap :
       \E h \in [1..n -> [qty : 1..2, price : Prices, isBuyer : BOOLEAN]] :
          /\ wallet' = [wallet EXCEPT ![sym] = w]
          /\ reg_log' = h
          /\ last_buy_qty' = [last_buy_qty EXCEPT ![sym] = reconcile_for_symbol(w, h)[1]]
          /\ last_buy_price' = [last_buy_price EXCEPT ![sym] = reconcile_for_symbol(w, h)[2]]
    /\ UNCHANGED <<botVars, stop_price, take_price, filters_cache, trades_today,
                   realized_pnl_usdt, pnl_daily, trades, locked, orders_filled, last_order,
                   calls, buffers, maxlen, appended, conform_seq, ledgerVars, retry>>

\* an engine, and nothing but the call of reconcile_for_symbol
SpecReconcile ==
    /\ InitWith(ExecCfgs, {UnitLots}, {[wallet |-> 0, history |-> << >>]}, {"none"})
    /\ [][Reconcile]_vars

\* C30: after reconcile_for_symbol the position is flat when the wallet balance is
\* zero; otherwise its quantity is the wallet balance and its average price is the cost
\* divided by the wallet balance, the cost being the sum over the buy trades of the
\* price times the quantity taken, where the walk runs from the most recent trade
\* backward, skips the sells, and takes from each buy what is left to cover of the
\* wallet balance, at most that trade's quantity
C30_ReconciledPosition ==
    \A sym \in Symbols :
        LET w == wallet[sym]
            n == Len(reg_log)
            \* quantity of the buys more recent than trade i
            later(i) == SumSeq([j \in 1..(n - i) |->
                                   IF reg_log[i + j].isBuyer THEN reg_log[i + j].qty ELSE 0])
            left(i) == IF w - later(i) > 0 THEN w - later(i) ELSE 0
            taken(i) == IF ~reg_log[i].isBuyer THEN 0
                        ELSE IF left(i) < reg_log[i].qty THEN left(i) ELSE reg_log[i].qty
            cost == SumSeq([i \in 1..n |-> reg_log[i].price * taken(i)])
        IN  IF w = 0
            THEN last_buy_qty[sym] = 0 /\ last_buy_price[sym] = 0
            ELSE last_buy_qty[sym] = w /\ last_buy_price[sym] = cost \div w

\* a balance of 3 reconciled over a history that ends with a sell: the sell is skipped,
\* the latest buy is taken whole, the one before it in part, at another price
C30_Witness ==
    /\ result = "reconciled"
    /\ Len(reg_log) = 3
    /\ ~reg_log[3].isBuyer
    /\ reg_log[2] = [qty |-> 2, price |-> 50, isBuyer |-> TRUE]
    /\ reg_log[1] = [qty |-> 2, price |-> 100, isBuyer |-> TRUE]
    /\ \E sym \in Symbols :
          /\ wallet[sym] = 3
          /\ last_buy_qty[sym] = 3
          /\ last_buy_price[sym] = 66

(***************************************************************************)
(* Protective levels, the risk gate and the position over a session        *)
(***************************************************************************)
\* C31 as stated: whenever protective orders are enabled with positive stop-loss and
\* take-profit percentages and the remembered quantity is greater than zero, whether a
\* buy opened the position or reconciliation established it, the stop and take prices
\* are avgPrice * (1 - stopLossPct / 100) and avgPrice * (1 + takeProfitPct / 100)
C31_LevelsWhenPositionOpen ==
    \A sym \in Symbols :
        (/\ cfg.protective_orders_enabled
         /\ cfg.stop_loss_pct > 0
         /\ cfg.take_profit_pct > 0
         /\ last_buy_qty[sym] > 0) =>
            /\ stop_price[sym] = (last_buy_price[sym] * (100 - cfg.stop_loss_pct)) \div 100
            /\ take_price[sym] = (last_buy_price[sym] * (100 + cfg.take_profit_pct)) \div 100

\* C32: a buy that filled and left no bracket order resting is reported as executed,
\* counted, and leaves the position with its stop and take set; and a closed candle
\* whose close is at or below the stop, or at or above the take, of a position with no
\* bracket order resting runs the software sell, which, when it fills with the wallet
\* holding the position, sells all of it and clears the levels
C32_SoftwareExitAfterOcoFailure ==
    [][/\ (/\ hpc = "strategies"
           /\ orders_filled' > orders_filled
           /\ last_order'.side = "buy"
           /\ locked'[cur.symbol] = 0) =>
              LET sym == cur.symbol
              IN  /\ result' = "executed"
                  /\ trades_today' = trades_today + 1
                  /\ last_buy_qty'[sym] > 0 =>
                        /\ stop_price'[sym] =
                              (last_buy_price'[sym] * (100 - cfg.stop_loss_pct)) \div 100
                        /\ take_price'[sym] =
                              (last_buy_price'[sym] * (100 + cfg.take_profit_pct)) \div 100
       /\ (/\ delivered' # delivered
           /\ LET sym == cur'.symbol
                  close == last_price'[sym]
              IN  /\ last_buy_qty[sym] > 0
                  /\ locked[sym] = 0
                  /\ \/ stop_price[sym] # 0 /\ close <= stop_price[sym]
                     \/ take_price[sym] # 0 /\ close >= take_price[sym]) =>
              LET sym == cur'.symbol
              IN  /\ "balance" \in calls'
                  /\ result' # "none"
                  /\ (last_order'.accepted /\ wallet[sym] >= last_buy_qty[sym]) =>
                        /\ last_order'.side = "sell"
                        /\ last_order'.qty = last_buy_qty[sym]
                        /\ last_buy_qty'[sym] = 0
                        /\ stop_price'[sym] = 0
                        /\ take_price'[sym] = 0]_vars

\* the bot bought on an account holding 2 lots, the bracket order failed, and a later
\* close at the take sold what it had bought: nothing is locked, the wallet is back at 2
C32_Witness ==
    /\ hpc = "strategies"
    /\ result = "executed"
    /\ last_order.side = "sell"
    /\ last_order.accepted
    /\ drifts = 0
    /\ Len(trades) = 2
    /\ trades[1].side = "buy"
    /\ trades[2].side = "sell"
    /\ trades[2].qty = trades[1].qty
    /\ trades[2].price > trades[1].price
    /\ \A sym \in Symbols :
          /\ wallet[sym] = 2
          /\ locked[sym] = 0
          /\ last_buy_qty[sym] = 0
          /\ stop_price[sym] = 0

\* C33 as stated: the number of trades registered today never exceeds max_trades_per_day
C33_NeverAboveCap == trades_today <= cfg.max_trades_per_day

\* C33 amended: once the cap is reached, a turn of the strategies loop places no order
\* and registers no trade; a step registers at most one trade; and a trade registered
\* at or above the cap is a sell made by the protective exit of a closed candle
C33_CapGatesSignals ==
    [][/\ (hpc = "strategies" /\ trades_today >= cfg.max_trades_per_day) =>
              /\ trades_today' = trades_today
              /\ orders_filled' = orders_filled
              /\ last_order' \in {last_order, NoOrder}
              /\ "order_qty" \in calls' => calls' = calls
              /\ "order_quote" \notin calls'
       /\ trades_today' # trades_today =>
              /\ trades_today' = trades_today + 1
              /\ trades_today >= cfg.max_trades_per_day =>
                    /\ delivered' # delivered
                    /\ last_order'.side = "sell"
                    /\ last_order'.accepted]_vars

\* at the cap the protective exit has sold, above it a strategy signal was refused
C33_Witness ==
    /\ trades_today = cfg.max_trades_per_day + 1
    /\ result = "risk_blocked"
    /\ hpc = "idle"
    /\ last_order = NoOrder
    /\ trades[Len(trades)].side = "sell"

\* C34: a closed candle whose close is at or below the stop, or at or above the take,
\* of an open position runs the sell path, whatever the pause flag, can_trade() and the
\* recent-signal window are
C34_ExitIgnoresGates ==
    [][(/\ delivered' # delivered
        /\ LET sym == cur'.symbol
               close == last_price'[sym]
           IN  /\ last_buy_qty[sym] > 0
               /\ \/ stop_price[sym] # 0 /\ close <= stop_price[sym]
                  \/ take_price[sym] # 0 /\ close >= take_price[sym]) =>
          /\ "balance" \in calls'
          /\ result' \in {"executed", "raised", "sell_no_position", "sell_below_min_qty",
                          "sell_below_min_notional"}]_vars

\* the protective exit sold with the pause flag present, the trade cap reached before
\* it and a signal still in the recent-signal window
C34_Witness ==
    /\ hpc = "strategies"
    /\ pause_flag
    /\ trades_today > cfg.max_trades_per_day
    /\ ~can_trade(Engine)
    /\ recent_signals # << >>
    /\ result = "executed"
    /\ last_order.side = "sell"
    /\ last_order.accepted

\* C35: a turn of the strategies loop taken when the trade cap is reached, or when the
\* capital base and the loss percentage are positive and the daily pnl is at or below
\* the loss cut, places no order of either side and leaves the position and the
\* account as they are
C35_NoOrderWhenBlocked ==
    [][(/\ hpc = "strategies"
        /\ <<hpc, hidx>>' # <<hpc, hidx>>
        /\ \/ trades_today >= cfg.max_trades_per_day
           \/ /\ cfg.capital_base_usdt > 0
              /\ cfg.max_daily_loss_pct > 0
              /\ pnl_daily * 100 <= -(cfg.capital_base_usdt * cfg.max_daily_loss_pct)) =>
          /\ UNCHANGED <<last_buy_qty, last_buy_price, wallet, orders_filled, trades>>
          /\ last_order' \in {last_order, NoOrder}
          /\ result' \in {result, "risk_blocked"}]_vars

\* at the trade cap, a sell signal for the open position was refused and the position
\* stays open
C35_Witness ==
    /\ result = "risk_blocked"
    /\ hpc = "idle"
    /\ trades_today = cfg.max_trades_per_day
    /\ \E sym \in Symbols : last_buy_qty[sym] > 0 /\ wallet[sym] >= last_buy_qty[sym]
    /\ \E k \in DOMAIN sig_window : k[2] = "sell" /\ sig_window[k].placed = 1

\* C36 as stated: with nothing but the engine moving the base asset, after any sequence
\* of buys and sells that filled and reported their fills, the remembered quantity is
\* the base-asset balance of the account (free, or locked in the engine's bracket order)
C36_PositionIsWallet ==
    (\A i \in 1..Len(trades) : trades[i].qty > 0) =>
        \A sym \in Symbols : last_buy_qty[sym] = wallet[sym] + locked[sym]

(***************************************************************************)
(* Timeframes: the buffers' keys, the strategies' interval, the mode       *)
(***************************************************************************)
\* C37 as stated: every candle stored under the key (symbol, tf) is a candle of
\* timeframe tf, from a subscription at tf or from a historical fetch at tf
C37_CandlesUnderOwnKey ==
    \A sym \in Symbols, tf \in TFs :
        \A i \in 1..Len(buffers[sym][tf].candles) : buffers[sym][tf].candles[i].src = tf

\* C38 as stated: at every signal evaluation the interval the strategy reads its buffer
\* at is the active timeframe of the stream client
C38_StrategyReadsActiveTimeframe == hpc = "strategies" => strategy_interval = timeframe

\* a funded account watched in a mode other than "trade"
SpecWatch ==
    /\ InitWith(StreamCfgs, {UnitLots, PairLots}, AccountChoices, {"none"})
    /\ [][Connect \/ RecvClosed \/ Strategy \/ WatchdogWake \/ CandleTick]_vars

\* C39: when the configured mode is not "trade" the client never submits an order: no
\* market order by quantity or by quote, no bracket, nothing filled or resting, no trade
\* registered, neither from the strategies loop nor from the protective-exit check
C39_NoOrderOutsideTradeMode ==
    cfg.mode # "trade" =>
        /\ orders_filled = 0
        /\ calls \cap {"order_qty", "order_quote", "oco"} = {}
        /\ last_order = NoOrder
        /\ \A sym \in Symbols : locked[sym] = 0
        /\ trades_today = 0
        /\ trades = << >>

\* outside trade mode, a reconciled position is held, two candles have closed and been
\* handled, the last one at half the entry price, and the strategies loop has returned
C39_Witness ==
    /\ cfg.mode # "trade"
    /\ hpc = "idle"
    /\ \E sym \in Symbols :
          /\ last_buy_qty[sym] > 0
          /\ last_buy_price[sym] = 100
          /\ wallet[sym] >= last_buy_qty[sym]
          /\ delivered[sym] >= 1
          /\ last_price[sym] = 50
====
